---- MODULE Spec2Model ----
(***************************************************************************)
(* A model of the introgression predictor (code/analyze/predict.py): the   *)
(* Sequence Encoder (HMM_Builder.ungap_and_code, poly_sites,               *)
(* encode_sequence), block extraction and block output                     *)
(* (Predictor.convert_to_blocks, write_blocks) and the run orchestration   *)
(* (Predictor.validate_arguments, run_prediction).                         *)
(*                                                                         *)
(* Python strings are modelled as sequences of one-character strings, a    *)
(* numpy array as a sequence, a 0-based Python index i as the TLA+ index   *)
(* i + 1 (values stored in the model, such as positions and block bounds,  *)
(* keep the 0-based value the code computes).                              *)
(***************************************************************************)
EXTENDS Integers, Sequences, FiniteSets, TLC

\* ------------------------------------------------------------------------
\* Bounds of the model
\* ------------------------------------------------------------------------

\* longest alignment (number of columns) the encoder is run on
MaxLen == 2

\* most sites in a per-site state sequence given to convert_to_blocks
MaxSites == 3

\* largest genomic coordinate in a positions array given to write_blocks
MaxPos == 3

\* most keys a configuration lacks
MaxMissing == 1

\* ------------------------------------------------------------------------
\* Configuration sample: analysis_params.reference, known_states and
\* unknown_states of the configuration, as get_states returns them
\* ------------------------------------------------------------------------

known_states == <<"ref", "sp1">>

unknown_states == <<"unk">>

states == known_states \o unknown_states

\* ------------------------------------------------------------------------
\* HMM_Builder.symbols
\* ------------------------------------------------------------------------

symbols ==
    [match |-> "+", mismatch |-> "-", unknown |-> "?", unsequenced |-> "n",
     gap |-> "-", unaligned |-> "?", masked |-> "x"]

\* characters an aligned sequence is drawn from: two bases, the gap symbol
\* and the unsequenced symbol
Alphabet == {"A", "C", symbols.gap, symbols.unsequenced}

\* ------------------------------------------------------------------------
\* Helpers for sequences
\* ------------------------------------------------------------------------

\* range(n) as the sequence of TLA+ indices 1..n
Indices(n) == [i \in 1..n |-> i]

\* all sequences over S of length lo..hi
SeqsOf(S, lo, hi) == UNION {[1..n -> S] : n \in lo..hi}

\* str.count for a one-character pattern
Count(x, c) == Cardinality({i \in 1..Len(x) : x[i] = c})

\* ------------------------------------------------------------------------
\* Numbers: a Python float or numpy float64 is modelled as the exact
\* rational it stands for, <<numerator, denominator>> in lowest terms with a
\* positive denominator (rounding is left out; the program's tolerances are
\* stated on top of it)
\* ------------------------------------------------------------------------

Abs(n) == IF n < 0 THEN -n ELSE n

RECURSIVE GCD(_, _)
GCD(a, b) == IF b = 0 THEN a ELSE GCD(b, a % b)

\* the rational n / d, d # 0
Rat(n, d) ==
    LET g == GCD(Abs(n), Abs(d))
        s == IF d < 0 THEN -1 ELSE 1
    IN  <<(s * n) \div g, (s * d) \div g>>

Zero == Rat(0, 1)

One == Rat(1, 1)

\* int -> float
IntToRat(n) == Rat(n, 1)

RAdd(x, y) == Rat(x[1] * y[2] + y[1] * x[2], x[2] * y[2])

RSub(x, y) == Rat(x[1] * y[2] - y[1] * x[2], x[2] * y[2])

RMul(x, y) == Rat(x[1] * y[1], x[2] * y[2])

\* x / y, y # 0
RDiv(x, y) == Rat(x[1] * y[2], x[2] * y[1])

RLess(x, y) == x[1] * y[2] < y[1] * x[2]

RECURSIVE RSum(_)
\* sum() / np.sum() of a sequence of numbers
RSum(xs) == IF Len(xs) = 0 THEN Zero ELSE RAdd(Head(xs), RSum(Tail(xs)))

\* ------------------------------------------------------------------------
\* State
\* ------------------------------------------------------------------------

VARIABLES
    \* --- encode_sequence
    predict_seq,      \* the predicted strain's aligned sequence
    ref_seqs,         \* the reference sequences, in reference order
    only_poly_sites,  \* encode_sequence's flag
    enc_pc,           \* position in encode_sequence, or the exception raised
    seq_coded,        \* coded sequence
    positions,        \* retained coordinates
    \* --- convert_to_blocks and the block output of one unit
    state_seq,        \* per-site predicted states (one label per site)
    pos,              \* the unit's positions array, one entry per site
    unit,             \* <<strain, chrom>> of the unit
    blk_pc,           \* position in the block output, or the exception raised
    state_blocks,     \* result of convert_to_blocks
    writer_idx,       \* states whose blocks were written (loop index)
    block_writers,    \* per state, the text written to its blocks file
    \* --- the Predictor and run_prediction
    missing,          \* the keys the configuration does not define
    attrs,            \* the Predictor's attributes: "None" or the kind of value
    run_pc,           \* position in run_prediction, or the exception raised
    run_err,          \* what the raised exception's message names
    opened,           \* the output files run_prediction has opened
    unit_idx,         \* number of units the loop has taken up
    outputs,          \* per output file, the text written to it
    completed,        \* the units whose processing reached its end
    failed,           \* the units whose processing raised, with the cause
    \* --- the HMM_Builder and the HMMs of one unit
    priors,           \* the configured expected lengths and fractions
    coded_sequence,   \* the coded sequence encode_sequence returned
    len_seq,          \* the length of the unit's alignment
    builder,          \* the HMM_Builder's expected values
    hmm,              \* the HMM that is given observations and trained
    hmm_init,         \* the copy made before the observations are set
    threshold,        \* the Predictor's threshold: a number or 'viterbi'
    probabilities,    \* posterior_decoding()[0]: per site, per state
    viterbi_path,     \* viterbi(): per site, the index of a state
    predicted_states, \* what process_path returns as the path
    hmm_pc,           \* position in the unit, or the exception raised
    \* --- process_predict_args
    arg_list,         \* argv
    args_dict,        \* the dictionary built (d)
    args_pc,          \* position in process_predict_args, or the exception
    \* --- the helper functions read_fasta, index_ignoring_gaps and
    \*     longest_consecutive
    fn_args,          \* the arguments of the call
    fn_ret,           \* what the call returned
    fn_pc             \* "call", "return", or the exception raised

encVars == <<predict_seq, ref_seqs, only_poly_sites, enc_pc, seq_coded, positions>>

blkVars == <<state_seq, pos, unit, blk_pc, state_blocks, writer_idx, block_writers>>

runVars == <<missing, attrs, run_pc, run_err, opened, unit_idx, outputs,
             completed, failed>>

hmmVars == <<priors, coded_sequence, len_seq, builder, hmm, hmm_init, threshold,
             probabilities, viterbi_path, predicted_states, hmm_pc>>

argVars == <<arg_list, args_dict, args_pc>>

fnVars == <<fn_args, fn_ret, fn_pc>>

vars == <<encVars, blkVars, runVars, hmmVars, argVars, fnVars>>

\* hmm_bw.HMM(): nothing is set; calls records the methods called on the
\* object
HMM ==
    [hidden_states |-> <<>>, initial_p |-> <<>>, emissions |-> <<>>,
     symbol_to_ind |-> <<>>, transitions |-> <<>>, observations |-> <<>>,
     calls |-> <<>>]

\* the variables of a part of the program that a specification does not run
IdleEncode ==
    /\ predict_seq = <<>>
    /\ ref_seqs = <<>>
    /\ only_poly_sites = TRUE
    /\ enc_pc = "idle"
    /\ seq_coded = <<>>
    /\ positions = <<>>

IdleBlocks ==
    /\ state_seq = <<>>
    /\ pos = <<>>
    /\ unit = <<>>
    /\ blk_pc = "idle"
    /\ state_blocks = <<>>
    /\ writer_idx = 0
    /\ block_writers = <<>>

IdleRun ==
    /\ missing = {}
    /\ attrs = <<>>
    /\ run_pc = "idle"
    /\ run_err = <<>>
    /\ opened = {}
    /\ unit_idx = 0
    /\ outputs = <<>>
    /\ completed = <<>>
    /\ failed = <<>>

IdleHmm ==
    /\ priors = <<>>
    /\ coded_sequence = <<>>
    /\ len_seq = 0
    /\ builder = <<>>
    /\ hmm = HMM
    /\ hmm_init = HMM
    /\ threshold = "None"
    /\ probabilities = <<>>
    /\ viterbi_path = <<>>
    /\ predicted_states = <<>>
    /\ hmm_pc = "idle"

IdleArgs ==
    /\ arg_list = <<>>
    /\ args_dict = <<>>
    /\ args_pc = "idle"

IdleFn ==
    /\ fn_args = <<>>
    /\ fn_ret = <<>>
    /\ fn_pc = "idle"

\* ------------------------------------------------------------------------
\* HMM_Builder.ungap_and_code
\* ------------------------------------------------------------------------

\* sequences = np.array([list(predict_seq)] + [list(r) for r in ref_seqs])
SeqArray(predict, refs) == <<predict>> \o refs

\* isbase = sequences != gap
IsBase(sequences, r, c) == sequences[r][c] # symbols.gap

\* isvalid = logical_and(sequences != gap, sequences != unsequenced)
IsValid(sequences, r, c) ==
    /\ sequences[r][c] # symbols.gap
    /\ sequences[r][c] # symbols.unsequenced

\* np.all(isvalid, axis=0)[c]
AllValid(sequences, c) == \A r \in 1..Len(sequences) : IsValid(sequences, r, c)

\* mutant: the index reference's columns masked by isvalid instead of isbase
BaseColumns_validmask(sequences, index_ref) ==
    LET IsRefValid(c) == IsValid(sequences, index_ref + 2, c)
    IN  SelectSeq(Indices(Len(sequences[1])), IsRefValid)

\* the columns kept by the boolean mask isbase[index_ref+1, :], in order
BaseColumns(sequences, index_ref) ==
    LET IsRefBase(c) == IsBase(sequences, index_ref + 2, c)
    IN  SelectSeq(Indices(Len(sequences[1])), IsRefBase)

\* mutant: np.all over the index reference's row only
UngapPositions_refonly(sequences, index_ref) ==
    LET base == BaseColumns(sequences, index_ref)
        Keep(i) == IsValid(sequences, index_ref + 2, base[i])
        kept == SelectSeq(Indices(Len(base)), Keep)
    IN  [i \in 1..Len(kept) |-> kept[i] - 1]

\* positions = np.where(np.all(isvalid[:, isbase[index_ref+1, :]], axis=0))[0]
\* : the 0-based indices, within the masked array, of the all-valid columns
UngapPositions(sequences, index_ref) ==
    LET base == BaseColumns(sequences, index_ref)
        Keep(i) == AllValid(sequences, base[i])
        kept == SelectSeq(Indices(Len(base)), Keep)
    IN  [i \in 1..Len(kept) |-> kept[i] - 1]

\* mutant: the references compared with the first reference, sequences[1]
CodeColumn_vsref(sequences, c) ==
    [j \in 1..(Len(sequences) - 1) |->
        IF sequences[2][c] = sequences[j + 1][c]
        THEN symbols.match ELSE symbols.mismatch]

\* matches = np.where(sequences[0] == sequences[1:], match, mismatch), one
\* column of it joined into a symbol
CodeColumn(sequences, c) ==
    [j \in 1..(Len(sequences) - 1) |->
        IF sequences[1][c] = sequences[j + 1][c]
        THEN symbols.match ELSE symbols.mismatch]

\* matches[:, np.all(isvalid, axis=0)], transposed and joined row by row
UngapMatches(sequences) ==
    LET Keep(c) == AllValid(sequences, c)
        kept == SelectSeq(Indices(Len(sequences[1])), Keep)
    IN  [i \in 1..Len(kept) |-> CodeColumn(sequences, kept[i])]

ungap_and_code(predict, refs, index_ref) ==
    LET sequences == SeqArray(predict, refs)
    IN  [matches |-> UngapMatches(sequences),
         positions |-> UngapPositions(sequences, index_ref)]

\* ------------------------------------------------------------------------
\* HMM_Builder.poly_sites
\* ------------------------------------------------------------------------

\* mutant: a site is retained when it has no match at all
PolyIndices_nomatch(sequences) ==
    LET Retain(i) == Count(sequences[i], symbols.match) = 0
    IN  SelectSeq(Indices(Len(sequences)), Retain)

\* retain = x.count(match) != seq_len, seq_len = len(sequences[0]);
\* indices = np.where(retain)[0]
PolyIndices(sequences) ==
    LET seq_len == Len(sequences[1])
        Retain(i) == Count(sequences[i], symbols.match) # seq_len
    IN  SelectSeq(Indices(Len(sequences)), Retain)

\* the result of poly_sites, or the exception it raises: sequences[0] of an
\* empty array raises IndexError, as does positions[indices] with an index
\* beyond positions
poly_sites(sequences, ps) ==
    IF Len(sequences) = 0
    THEN [raised |-> "IndexError", seq |-> <<>>, ps |-> <<>>]
    ELSE LET indices == PolyIndices(sequences)
         IN  IF \E i \in 1..Len(indices) : indices[i] > Len(ps)
             THEN [raised |-> "IndexError", seq |-> <<>>, ps |-> <<>>]
             ELSE [raised |-> "none",
                   seq |-> [i \in 1..Len(indices) |-> sequences[indices[i]]],
                   ps |-> [i \in 1..Len(indices) |-> ps[indices[i]]]]

\* ------------------------------------------------------------------------
\* HMM_Builder.encode_sequence, step by step
\* ------------------------------------------------------------------------

\* the aligned sequences read_fasta returns for one alignment file: the k
\* references first, the predicted strain last, all of one length n >= 1
\* (what numpy makes of zero-length sequences, an empty float array compared
\* with a string, depends on its version and is left out)
Alignments ==
    UNION {[1..(k + 1) -> [1..n -> Alphabet]] :
              n \in 1..MaxLen, k \in 1..Len(known_states)}

InitEncode ==
    /\ \E a \in Alignments :
          /\ ref_seqs = SubSeq(a, 1, Len(a) - 1)
          /\ predict_seq = a[Len(a)]
    /\ only_poly_sites \in BOOLEAN
    /\ enc_pc = "ungap_and_code"
    /\ seq_coded = <<>>
    /\ positions = <<>>
    /\ IdleBlocks
    /\ IdleRun
    /\ IdleHmm
    /\ IdleArgs
    /\ IdleFn

\* seq_coded, positions = self.ungap_and_code(predicted, references)
UngapAndCode ==
    /\ enc_pc = "ungap_and_code"
    /\ LET r == ungap_and_code(predict_seq, ref_seqs, 0)
       IN  /\ seq_coded' = r.matches
           /\ positions' = r.positions
    /\ enc_pc' = IF only_poly_sites THEN "poly_sites" ELSE "return"
    /\ UNCHANGED <<predict_seq, ref_seqs, only_poly_sites, blkVars, runVars, hmmVars, argVars, fnVars>>

\* if only_poly_sites: seq_coded, positions = self.poly_sites(...)
PolySites ==
    /\ enc_pc = "poly_sites"
    /\ LET r == poly_sites(seq_coded, positions)
       IN  IF r.raised # "none"
           THEN /\ enc_pc' = r.raised
                /\ UNCHANGED <<seq_coded, positions>>
           ELSE /\ enc_pc' = "return"
                /\ seq_coded' = r.seq
                /\ positions' = r.ps
    /\ UNCHANGED <<predict_seq, ref_seqs, only_poly_sites, blkVars, runVars, hmmVars, argVars, fnVars>>

NextEncode == UngapAndCode \/ PolySites

SpecEncode == InitEncode /\ [][NextEncode]_vars

\* ------------------------------------------------------------------------
\* Predictor.convert_to_blocks
\* ------------------------------------------------------------------------

\* the set of configured state names
StateSet == {states[i] : i \in 1..Len(states)}

\* blocks = {}; for state in self.states: blocks[state] = []
EmptyBlocks == [s \in StateSet |-> <<>>]

RECURSIVE BlocksLoop_staleend(_, _, _)
\* mutant: block_end is not reset when a new block starts
BlocksLoop_staleend(seq, i, acc) ==
    IF i >= Len(seq)
    THEN acc
    ELSE IF seq[i + 1] = acc.prev_species
         THEN BlocksLoop_staleend(seq, i + 1, [acc EXCEPT !.block_end = i])
         ELSE BlocksLoop_staleend(seq, i + 1,
                [prev_species |-> seq[i + 1],
                 block_start |-> i,
                 block_end |-> acc.block_end,
                 blocks |-> [acc.blocks EXCEPT ![acc.prev_species] =
                                Append(@, <<acc.block_start, acc.block_end>>)]])

RECURSIVE BlocksLoop(_, _, _)
\* for i in range(len(state_seq)): ... (i is the Python index; acc holds
\* prev_species, block_start, block_end and blocks)
BlocksLoop(seq, i, acc) ==
    IF i >= Len(seq)
    THEN acc
    ELSE IF seq[i + 1] = acc.prev_species
         THEN BlocksLoop(seq, i + 1, [acc EXCEPT !.block_end = i])
         ELSE BlocksLoop(seq, i + 1,
                [prev_species |-> seq[i + 1],
                 block_start |-> i,
                 block_end |-> i,
                 blocks |-> [acc.blocks EXCEPT ![acc.prev_species] =
                                Append(@, <<acc.block_start, acc.block_end>>)]])

\* mutant: the last block is not added after the loop
convert_to_blocks_nolast(seq) ==
    IF Len(seq) = 0
    THEN [raised |-> "IndexError", blocks |-> EmptyBlocks]
    ELSE LET acc == BlocksLoop(seq, 0,
                       [prev_species |-> seq[1], block_start |-> 0,
                        block_end |-> 0, blocks |-> EmptyBlocks])
         IN  [raised |-> "none", blocks |-> acc.blocks]

\* the dict convert_to_blocks returns, or the exception it raises:
\* state_seq[0] of an empty sequence raises IndexError.  The labels are
\* state names, so prev_species is always a key of blocks.
convert_to_blocks(seq) ==
    IF Len(seq) = 0
    THEN [raised |-> "IndexError", blocks |-> EmptyBlocks]
    ELSE LET acc == BlocksLoop(seq, 0,
                       [prev_species |-> seq[1], block_start |-> 0,
                        block_end |-> 0, blocks |-> EmptyBlocks])
         IN  [raised |-> "none",
              blocks |-> [acc.blocks EXCEPT ![acc.prev_species] =
                             Append(@, <<acc.block_start, acc.block_end>>)]]

\* ------------------------------------------------------------------------
\* Predictor.write_blocks_header, write_blocks
\* ------------------------------------------------------------------------

\* A file's text is a sequence of tokens: a row (the tuple of its
\* tab-separated fields) or the line break.
NL == "\n"

BlocksHeader ==
    <<"strain", "chromosome", "predicted_species", "start", "end", "num_sites_hmm">>

\* what write_blocks_header writes
write_blocks_header == <<BlocksHeader, NL>>

\* mutant: the last column holds the genomic span of the block
BlockRow_span(block, ps, strain, chrm, species_pred) ==
    <<strain, chrm, species_pred,
      ps[block[1] + 1], ps[block[2] + 1],
      ps[block[2] + 1] - ps[block[1] + 1] + 1>>

\* '\t'.join([strain, chrm, species_pred, str(positions[start]),
\*            str(positions[end]), str(end - start + 1)])
BlockRow(block, ps, strain, chrm, species_pred) ==
    <<strain, chrm, species_pred,
      ps[block[1] + 1], ps[block[2] + 1],
      block[2] - block[1] + 1>>

RECURSIVE JoinNL(_)
\* '\n'.join(rows)
JoinNL(rows) ==
    IF Len(rows) = 0 THEN <<>>
    ELSE IF Len(rows) = 1 THEN <<rows[1]>>
    ELSE <<rows[1], NL>> \o JoinNL(Tail(rows))

\* what write_blocks writes: the joined rows, then a line break if there
\* is any block
write_blocks(state_seq_blocks, ps, strain, chrm, species_pred) ==
    LET rows == [b \in 1..Len(state_seq_blocks) |->
                    BlockRow(state_seq_blocks[b], ps, strain, chrm, species_pred)]
    IN  JoinNL(rows) \o (IF Len(state_seq_blocks) > 0 THEN <<NL>> ELSE <<>>)

\* ------------------------------------------------------------------------
\* Block extraction and block output of one unit (run_prediction, from
\* convert_to_blocks to the write_blocks loop)
\* ------------------------------------------------------------------------

\* strictly increasing sequences of n coordinates in 0..MaxPos, as
\* ungap_and_code and poly_sites return them
IncreasingSeqs(n) ==
    {p \in [1..n -> 0..MaxPos] : \A i \in 1..(n - 1) : p[i] < p[i + 1]}

SampleUnits == {<<"s1", "I">>, <<"s2", "II">>}

InitBlocks ==
    /\ IdleEncode
    /\ IdleRun
    /\ IdleHmm
    /\ IdleArgs
    /\ IdleFn
    /\ state_seq \in SeqsOf(StateSet, 0, MaxSites)
    /\ pos \in IncreasingSeqs(Len(state_seq))
    /\ unit \in SampleUnits
    /\ blk_pc = "convert_to_blocks"
    /\ state_blocks = EmptyBlocks
    /\ writer_idx = 0
    /\ block_writers = [s \in StateSet |-> write_blocks_header]

\* state_blocks = self.convert_to_blocks(predicted_states)
ConvertToBlocks ==
    /\ blk_pc = "convert_to_blocks"
    /\ LET r == convert_to_blocks(state_seq)
       IN  /\ state_blocks' = r.blocks
           /\ blk_pc' = IF r.raised # "none" THEN r.raised ELSE "write_blocks"
    /\ UNCHANGED <<state_seq, pos, unit, writer_idx, block_writers, encVars, runVars, hmmVars, argVars, fnVars>>

\* one iteration of: for state, block in state_blocks.items():
\*                       self.write_blocks(block, pos, block_writers[state], ...)
WriteBlocks ==
    /\ blk_pc = "write_blocks"
    /\ LET state == states[writer_idx + 1]
       IN  block_writers' = [block_writers EXCEPT ![state] =
              @ \o write_blocks(state_blocks[state], pos, unit[1], unit[2], state)]
    /\ writer_idx' = writer_idx + 1
    /\ blk_pc' = IF writer_idx + 1 = Len(states) THEN "done" ELSE "write_blocks"
    /\ UNCHANGED <<state_seq, pos, unit, state_blocks, encVars, runVars, hmmVars, argVars, fnVars>>

NextBlocks == ConvertToBlocks \/ WriteBlocks

SpecBlocks == InitBlocks /\ [][NextBlocks]_vars

\* ------------------------------------------------------------------------
\* The configuration and the Predictor's attributes
\* ------------------------------------------------------------------------

\* the names under analysis_params.reference, known_states and
\* unknown_states of the sample configuration
ReferenceName == "ref"

ConfigKnownNames == <<"sp1">>

ConfigUnknownNames == <<"unk">>

\* the key of a state's parameter in the configuration
ParamKey ==
    [sp1 |-> [expected_length |-> "sp1.expected_length",
              expected_fraction |-> "sp1.expected_fraction"],
     unk |-> [expected_length |-> "unk.expected_length",
              expected_fraction |-> "unk.expected_fraction"]]

\* the keys the code reads from the configuration
ConfigKeys ==
    {"chromosomes", "strains", "paths.test_strains",
     "analysis_params.threshold", "paths.analysis.block_files",
     "paths.analysis.hmm_initial", "paths.analysis.hmm_trained",
     "paths.analysis.positions", "paths.analysis.probabilities",
     "paths.analysis.alignment", "analysis_params.known_states",
     "analysis_params.unknown_states", "analysis_params.reference",
     "sp1.expected_length", "sp1.expected_fraction",
     "unk.expected_length", "unk.expected_fraction"}

\* get_nested(config, key) is not None
Has(key) == key \notin missing

\* validate(config, key, message, value): the value given, else the
\* configuration's; ValueError when there is neither
Validates(key, given) == given \/ Has(key)

\* get_states(config)[0]: the reference's name, then the known states' names
PredictorKnownStates ==
    (IF Has("analysis_params.reference") THEN <<ReferenceName>> ELSE <<>>)
    \o (IF Has("analysis_params.known_states") THEN ConfigKnownNames ELSE <<>>)

\* the attributes validate_arguments requires, in its order
Args ==
    <<"chromosomes", "blocks", "prefix", "strains", "hmm_initial",
      "hmm_trained", "probabilities", "alignment", "known_states",
      "unknown_states", "threshold">>

AttrNames == {Args[i] : i \in 1..Len(Args)} \cup {"positions"}

\* the kinds of threshold value: a number (or a string float() converts),
\* the string 'viterbi', any other string
ThresholdKinds == {"float", "viterbi", "other"}

\* the threshold of the sample configuration
ConfigThreshold == "viterbi"

\* Predictor.__init__: get_states gives two lists, everything else is None
InitPredictor ==
    /\ missing \in {m \in SUBSET ConfigKeys : Cardinality(m) <= MaxMissing}
    /\ attrs = [a \in AttrNames |->
                  IF a \in {"known_states", "unknown_states"} THEN "set" ELSE "None"]
    /\ run_pc = "start"
    /\ run_err = <<>>
    /\ opened = {}
    /\ unit_idx = 0
    /\ outputs = <<>>
    /\ completed = <<>>
    /\ failed = <<>>

\* what a setter leaves alone (a setter that raises leaves everything alone)
SetterFrame ==
    UNCHANGED <<missing, run_pc, run_err, opened, unit_idx, outputs,
                completed, failed, encVars, blkVars, hmmVars, argVars, fnVars>>

\* Predictor.set_chromosomes
SetChromosomes ==
    /\ run_pc = "start"
    /\ attrs' = IF Validates("chromosomes", FALSE)
                THEN [attrs EXCEPT !["chromosomes"] = "set"]
                ELSE attrs
    /\ SetterFrame

\* Predictor.set_blocks_file(blocks); the file name carries its wildcard
SetBlocksFile ==
    /\ run_pc = "start"
    /\ \E given \in BOOLEAN :
          attrs' = IF Validates("paths.analysis.block_files", given)
                   THEN [attrs EXCEPT !["blocks"] = "set"]
                   ELSE attrs
    /\ SetterFrame

\* Predictor.set_prefix(prefix)
SetPrefix ==
    /\ run_pc = "start"
    /\ \E given \in BOOLEAN :
          attrs' = IF given \/ PredictorKnownStates # <<>>
                   THEN [attrs EXCEPT !["prefix"] = "set"]
                   ELSE attrs
    /\ SetterFrame

\* Predictor.set_threshold(threshold): the attribute is assigned before
\* float() is tried, so an unsupported value stays in it when ValueError
\* is raised
SetThreshold ==
    /\ run_pc = "start"
    /\ \E given \in BOOLEAN : \E kind \in ThresholdKinds :
          attrs' = IF Validates("analysis_params.threshold", given)
                   THEN [attrs EXCEPT !["threshold"] =
                            IF given THEN kind ELSE ConfigThreshold]
                   ELSE attrs
    /\ SetterFrame

\* Predictor.set_strains(test_strains), find_strains: the strains of the
\* configuration, else those of the files the test_strains pattern matches
\* (found); without chromosomes the comparison of their number raises
SetStrains ==
    /\ run_pc = "start"
    /\ \E given, found \in BOOLEAN :
          attrs' = IF \/ Has("strains")
                      \/ /\ given \/ Has("paths.test_strains")
                         /\ found
                         /\ attrs["chromosomes"] # "None"
                   THEN [attrs EXCEPT !["strains"] = "set"]
                   ELSE attrs
    /\ SetterFrame

\* Predictor.set_output_files(hmm_initial, hmm_trained, positions,
\* probabilities, alignment): the assignments up to the first one that raises
SetOutputFiles ==
    /\ run_pc = "start"
    /\ \E g \in [{"hmm_initial", "hmm_trained", "positions", "probabilities",
                  "alignment"} -> BOOLEAN] :
          LET ok1 == Validates("paths.analysis.hmm_initial", g["hmm_initial"])
              ok2 == ok1 /\ Validates("paths.analysis.hmm_trained", g["hmm_trained"])
              ok4 == ok2 /\ Validates("paths.analysis.probabilities", g["probabilities"])
              \* alignment.replace('{prefix}', self.prefix) needs a prefix
              ok5 == /\ ok4
                     /\ Validates("paths.analysis.alignment", g["alignment"])
                     /\ attrs["prefix"] # "None"
          IN  attrs' = [attrs EXCEPT
                  !["hmm_initial"] = IF ok1 THEN "set" ELSE @,
                  !["hmm_trained"] = IF ok2 THEN "set" ELSE @,
                  !["positions"] =
                      IF ok2
                      THEN (IF g["positions"] \/ Has("paths.analysis.positions")
                            THEN "set" ELSE "None")
                      ELSE @,
                  !["probabilities"] = IF ok4 THEN "set" ELSE @,
                  !["alignment"] = IF ok5 THEN "set" ELSE @]
    /\ SetterFrame

\* ------------------------------------------------------------------------
\* Predictor.validate_arguments
\* ------------------------------------------------------------------------

\* the first state of a configured list that lacks a parameter, with the
\* parameter: expected_length is looked at before expected_fraction
RECURSIVE FirstLacking(_, _)
FirstLacking(names, i) ==
    IF i > Len(names) THEN [kind |-> "none", name |-> "none"]
    ELSE IF ~Has(ParamKey[names[i]]["expected_length"])
         THEN [kind |-> "expected_length", name |-> names[i]]
    ELSE IF ~Has(ParamKey[names[i]]["expected_fraction"])
         THEN [kind |-> "expected_fraction", name |-> names[i]]
    ELSE FirstLacking(names, i + 1)

\* the attributes of Args that are None, and the first of them
UnsetArgs == {i \in 1..Len(Args) : attrs[Args[i]] = "None"}

FirstUnsetArg == Args[CHOOSE i \in UnsetArgs : \A j \in UnsetArgs : i <= j]

\* mutant: the reference is not looked at
validate_arguments_noreference ==
    IF UnsetArgs # {}
    THEN [raised |-> "ValueError", kind |-> "unset", name |-> FirstUnsetArg]
    ELSE IF ~Has("analysis_params.known_states")
    THEN [raised |-> "ValueError", kind |-> "no_known_states", name |-> "known_states"]
    ELSE IF FirstLacking(ConfigKnownNames, 1).kind # "none"
    THEN [raised |-> "ValueError",
          kind |-> FirstLacking(ConfigKnownNames, 1).kind,
          name |-> FirstLacking(ConfigKnownNames, 1).name]
    ELSE IF /\ Has("analysis_params.unknown_states")
            /\ FirstLacking(ConfigUnknownNames, 1).kind # "none"
    THEN [raised |-> "ValueError",
          kind |-> FirstLacking(ConfigUnknownNames, 1).kind,
          name |-> FirstLacking(ConfigUnknownNames, 1).name]
    ELSE [raised |-> "none", kind |-> "none", name |-> "none"]

\* the ValueError validate_arguments raises, with what its message names,
\* or none when it returns True
validate_arguments ==
    IF UnsetArgs # {}
    THEN [raised |-> "ValueError", kind |-> "unset", name |-> FirstUnsetArg]
    ELSE IF ~Has("analysis_params.known_states")
    THEN [raised |-> "ValueError", kind |-> "no_known_states", name |-> "known_states"]
    ELSE IF FirstLacking(ConfigKnownNames, 1).kind # "none"
    THEN [raised |-> "ValueError",
          kind |-> FirstLacking(ConfigKnownNames, 1).kind,
          name |-> FirstLacking(ConfigKnownNames, 1).name]
    ELSE IF /\ Has("analysis_params.unknown_states")
            /\ FirstLacking(ConfigUnknownNames, 1).kind # "none"
    THEN [raised |-> "ValueError",
          kind |-> FirstLacking(ConfigUnknownNames, 1).kind,
          name |-> FirstLacking(ConfigUnknownNames, 1).name]
    ELSE IF ~Has("analysis_params.reference")
    THEN [raised |-> "ValueError", kind |-> "no_reference", name |-> "reference"]
    ELSE [raised |-> "none", kind |-> "none", name |-> "none"]

\* ------------------------------------------------------------------------
\* HMM_Builder.set_expected_values: the exception it raises, if any
\* ------------------------------------------------------------------------

set_expected_values ==
    IF ~Has("analysis_params.known_states")
    THEN "TypeError"                       \* for state in None
    ELSE IF FirstLacking(ConfigKnownNames, 1).kind # "none"
    THEN "KeyError"                        \* state['expected_length']
    ELSE IF ~Has("analysis_params.unknown_states")
    THEN "TypeError"                       \* for state in None
    ELSE IF FirstLacking(ConfigUnknownNames, 1).kind # "none"
    THEN "KeyError"
    ELSE IF ~Has("analysis_params.reference")
    THEN "TypeError"                       \* reference['name'] of None
    ELSE "none"

\* ------------------------------------------------------------------------
\* HMM_Builder.set_expected_values, update_expected_length: the numbers
\* ------------------------------------------------------------------------

\* the expected_length and expected_fraction entries of the configuration's
\* known_states and unknown_states lists
PriorsOf(l1, f1, l2, f2) ==
    [sp1 |-> [expected_length |-> l1, expected_fraction |-> f1],
     unk |-> [expected_length |-> l2, expected_fraction |-> f2]]

\* sample configurations: tract lengths of 2 or 10 sites and a fraction of
\* 1/10 or 1/4 for the known state, 5 sites and 1/20 or 1/10 for the
\* unknown state
PriorsSet ==
    {PriorsOf(IntToRat(l1), f1, IntToRat(5), f2) :
        l1 \in {2, 10}, f1 \in {Rat(1, 10), Rat(1, 4)},
        f2 \in {Rat(1, 20), Rat(1, 10)}}

\* the priors of the sample configuration run_prediction works on
ConfigPriors == PriorsOf(IntToRat(10), Rat(1, 10), IntToRat(5), Rat(1, 20))

\* the values of a dict whose keys are the names in order
ValuesOf(d, names) == [i \in 1..Len(names) |-> d[names[i]]]

\* set_expected_values: expected_lengths and expected_fractions of the
\* configured known and unknown states, the reference's fraction as the
\* remainder, ref_fraction and other_sum
ExpectedValues(config) ==
    LET others == ConfigKnownNames \o ConfigUnknownNames
        lengths == [s \in {others[i] : i \in 1..Len(others)} |->
                       config[s].expected_length]
        given == [s \in {others[i] : i \in 1..Len(others)} |->
                     config[s].expected_fraction]
        fractions == [s \in StateSet |->
                         IF s = ReferenceName
                         THEN RSub(One, RSum(ValuesOf(given, others)))
                         ELSE given[s]]
    IN  [expected_lengths |-> lengths,
         expected_fractions |-> fractions,
         ref_state |-> ReferenceName,
         ref_fraction |->
             RAdd(fractions[ReferenceName],
                  RSum(ValuesOf(fractions, unknown_states))),
         other_sum |->
             RSum([i \in 1..Len(ConfigKnownNames) |->
                     RDiv(fractions[ConfigKnownNames[i]],
                          lengths[ConfigKnownNames[i]])])]

\* mutant: a call also changes other_sum, which the next call reads
update_expected_length_carry(ev, total_length) ==
    [ev EXCEPT !.expected_lengths =
                  [s \in StateSet |->
                      IF s = ev.ref_state
                      THEN RDiv(RMul(IntToRat(total_length), ev.ref_fraction),
                                RAdd(RMul(IntToRat(total_length), ev.other_sum),
                                     One))
                      ELSE ev.expected_lengths[s]],
               !.other_sum = RAdd(ev.other_sum, One)]

\* mutant: the unknown states' fractions are not folded into ref_fraction
update_expected_length_nofold(ev, total_length) ==
    [ev EXCEPT !.expected_lengths =
        [s \in StateSet |->
            IF s = ev.ref_state
            THEN RDiv(RMul(IntToRat(total_length),
                           ev.expected_fractions[ev.ref_state]),
                      RAdd(RMul(IntToRat(total_length), ev.other_sum), One))
            ELSE ev.expected_lengths[s]]]

\* update_expected_length(total_length): the reference's expected length
update_expected_length(ev, total_length) ==
    [ev EXCEPT !.expected_lengths =
        [s \in StateSet |->
            IF s = ev.ref_state
            THEN RDiv(RMul(IntToRat(total_length), ev.ref_fraction),
                      RAdd(RMul(IntToRat(total_length), ev.other_sum), One))
            ELSE ev.expected_lengths[s]]]

\* ------------------------------------------------------------------------
\* HMM_Builder.update_emission_symbols
\* ------------------------------------------------------------------------

RECURSIVE Product(_, _)
\* itertools.product(syms, repeat=repeats), in its order
Product(syms, repeats) ==
    IF repeats = 0 THEN << <<>> >>
    ELSE LET rest == Product(syms, repeats - 1)
         IN  [n \in 1..(Len(syms) * Len(rest)) |->
                <<syms[((n - 1) \div Len(rest)) + 1]>>
                    \o rest[((n - 1) % Len(rest)) + 1]]

\* the characters of the symbols, ascending by code point as Python compares
\* the characters of strings
CharOrder == <<"*", "+", "-", "?", "A", "C", "n", "x">>

RECURSIVE StrLess(_, _)
\* a < b for two strings given as their characters
StrLess(a, b) ==
    LET CharRank(ch) == CHOOSE i \in 1..Len(CharOrder) : CharOrder[i] = ch
    IN  IF Len(b) = 0 THEN FALSE
        ELSE IF Len(a) = 0 THEN TRUE
        ELSE IF Head(a) = Head(b) THEN StrLess(Tail(a), Tail(b))
        ELSE CharRank(Head(a)) < CharRank(Head(b))

RECURSIVE Sort(_)
\* list.sort(): the strings of the list in ascending order, a string staying
\* before the equal ones that followed it
Sort(list) ==
    IF Len(list) = 0 THEN <<>>
    ELSE LET IsLess(x) == StrLess(x, Head(list))
             NotLess(x) == ~StrLess(x, Head(list))
         IN  Sort(SelectSeq(Tail(list), IsLess))
                 \o <<Head(list)>>
                 \o Sort(SelectSeq(Tail(list), NotLess))

\* update_emission_symbols(repeats): the product of the match and mismatch
\* symbols, then emis_symbols.sort()
update_emission_symbols(repeats) ==
    Sort(Product(<<symbols.match, symbols.mismatch>>, repeats))

\* ------------------------------------------------------------------------
\* HMM_Builder.get_symbol_freqs
\* ------------------------------------------------------------------------

RECURSIVE Keys(_, _)
\* the keys of Counter(sequence): the distinct symbols in order of first
\* occurrence
Keys(sequence, seen) ==
    IF Len(sequence) = 0 THEN seen
    ELSE Keys(Tail(sequence),
              IF \E i \in 1..Len(seen) : seen[i] = Head(sequence)
              THEN seen ELSE Append(seen, Head(sequence)))

\* get_symbol_freqs: weighted[j], the number of sites at which reference j
\* matches, before the division by their total
WeightedCounts(sequence) ==
    [j \in 1..(IF Len(sequence) = 0 THEN 0 ELSE Len(sequence[1])) |->
        Cardinality({i \in 1..Len(sequence) : sequence[i][j] = symbols.match})]

RECURSIVE SumSeq(_)
SumSeq(w) == IF Len(w) = 0 THEN 0 ELSE Head(w) + SumSeq(Tail(w))

\* mutant: the matches of a reference are divided by the number of sites
get_symbol_freqs_persite(sequence) ==
    LET keys == Keys(sequence, <<>>)
        counts == WeightedCounts(sequence)
    IN  [keys |-> keys,
         symbols |-> [k \in {keys[i] : i \in 1..Len(keys)} |->
                        Rat(Cardinality({i \in 1..Len(sequence) : sequence[i] = k}),
                            Len(sequence))],
         weighted |-> [j \in 1..Len(counts) |-> Rat(counts[j], Len(sequence))]]

\* get_symbol_freqs on a sequence with at least one match: the fraction of
\* each symbol and, per reference, its share of all the matches
get_symbol_freqs(sequence) ==
    LET keys == Keys(sequence, <<>>)
        counts == WeightedCounts(sequence)
        total == SumSeq(counts)
    IN  [keys |-> keys,
         symbols |-> [k \in {keys[i] : i \in 1..Len(keys)} |->
                        Rat(Cardinality({i \in 1..Len(sequence) : sequence[i] = k}),
                            Len(sequence))],
         weighted |-> [j \in 1..Len(counts) |-> Rat(counts[j], total)]]

\* ------------------------------------------------------------------------
\* HMM_Builder.initial_probabilities
\* ------------------------------------------------------------------------

expectation_weight == Rat(9, 10)

\* divide every entry by the sum of the entries
Normalized(xs) == [i \in 1..Len(xs) |-> RDiv(xs[i], RSum(xs))]

\* mutant: the vector is returned as it is, not divided by its sum
initial_probabilities_nonorm(ev, weighted_match_freqs) ==
    [s \in 1..Len(known_states) |->
        RAdd(RMul(ev.expected_fractions[known_states[s]], expectation_weight),
             RMul(weighted_match_freqs[s], RSub(One, expectation_weight)))]
    \o [u \in 1..Len(unknown_states) |->
          ev.expected_fractions[unknown_states[u]]]

\* init / np.sum(init)
initial_probabilities(ev, weighted_match_freqs) ==
    LET init ==
            [s \in 1..Len(known_states) |->
                RAdd(RMul(ev.expected_fractions[known_states[s]],
                          expectation_weight),
                     RMul(weighted_match_freqs[s],
                          RSub(One, expectation_weight)))]
            \o [u \in 1..Len(unknown_states) |->
                  ev.expected_fractions[unknown_states[u]]]
    IN  Normalized(init)

\* ------------------------------------------------------------------------
\* HMM_Builder.emission_probabilities
\* ------------------------------------------------------------------------

\* probabilities[first + other], before the scaling by num_per_category
BasePattern(first, other) ==
    IF first = symbols.mismatch /\ other = symbols.match THEN Rat(9, 10)
    ELSE IF first = symbols.match /\ other = symbols.match THEN Rat(9, 100)
    ELSE IF first = symbols.mismatch /\ other = symbols.mismatch THEN Rat(9, 1000)
    ELSE Rat(1, 1000)

mismatch_bias == Rat(99, 100)

\* 2 ** n as a float, n >= -1
Pow2(n) == IF n < 0 THEN Rat(1, 2) ELSE IntToRat(2 ^ n)

\* the list of dicts emission_probabilities returns for the symbols syms
\* (a sequence of distinct symbols, each as long as known_states): one dict
\* per known state, then one per unknown state
emission_probabilities(syms) ==
    LET num_per_category == Pow2(Len(known_states) - 2)
        Prob(first, other) == RMul(BasePattern(first, other), num_per_category)
        symbol_length == Len(syms[1])
        \* emissions[:, j] before and after emissions /= sum(emissions)
        Column(j) == [i \in 1..Len(syms) |-> Prob(syms[i][1], syms[i][j])]
        \* number_matches + mismatch_bias * (symbol_length - 2 * number_matches)
        biased == [i \in 1..Len(syms) |->
                     RAdd(IntToRat(Count(syms[i], symbols.match)),
                          RMul(mismatch_bias,
                               IntToRat(symbol_length
                                        - 2 * Count(syms[i], symbols.match))))]
        IndexOf(k) == CHOOSE i \in 1..Len(syms) : syms[i] = k
        AsDict(col) == [k \in {syms[i] : i \in 1..Len(syms)} |-> col[IndexOf(k)]]
    IN  [j \in 1..Len(known_states) |-> AsDict(Normalized(Column(j)))]
        \o [u \in 1..Len(unknown_states) |-> AsDict(Normalized(biased))]

\* ------------------------------------------------------------------------
\* HMM_Builder.transition_probabilities
\* ------------------------------------------------------------------------

\* mutant: transitions out are apportioned by the source state's fraction
transition_probabilities_source(ev) ==
    LET fractions == ValuesOf(ev.expected_fractions, states)
        lengths == [i \in 1..Len(states) |->
                       RDiv(One, ev.expected_lengths[states[i]])]
        transitions ==
            [i \in 1..Len(states) |-> [j \in 1..Len(states) |->
                IF i = j THEN RSub(One, lengths[i])
                ELSE RMul(RMul(lengths[i], RDiv(One, RSub(One, fractions[i]))),
                          fractions[i])]]
    IN  [i \in 1..Len(states) |-> Normalized(transitions[i])]

\* the matrix transition_probabilities returns, row by row
transition_probabilities(ev) ==
    LET fractions == ValuesOf(ev.expected_fractions, states)
        lengths == [i \in 1..Len(states) |->
                       RDiv(One, ev.expected_lengths[states[i]])]
        \* np.outer(lengths * 1/(1-fractions), fractions), then the diagonal
        transitions ==
            [i \in 1..Len(states) |-> [j \in 1..Len(states) |->
                IF i = j THEN RSub(One, lengths[i])
                ELSE RMul(RMul(lengths[i], RDiv(One, RSub(One, fractions[i]))),
                          fractions[j])]]
    IN  [i \in 1..Len(states) |-> Normalized(transitions[i])]

\* ------------------------------------------------------------------------
\* hmm_bw.HMM: the object and the methods the predictor calls.  Every call
\* is recorded on the object it is made on.
\* ------------------------------------------------------------------------

set_initial_p(h, p) ==
    [h EXCEPT !.initial_p = p, !.calls = Append(@, "set_initial_p")]

\* set_emissions(list of dicts): the symbols of the dicts get the indices
\* 0, 1, ... in sorted order and the dicts become the rows of a matrix
set_emissions(h, dicts) ==
    LET all == update_emission_symbols(Len(known_states))
        Present(k) == k \in DOMAIN dicts[1]
        keys == SelectSeq(all, Present)
    IN  [h EXCEPT
            !.symbol_to_ind =
                [k \in DOMAIN dicts[1] |->
                    (CHOOSE i \in 1..Len(keys) : keys[i] = k) - 1],
            !.emissions =
                [i \in 1..Len(dicts) |-> [n \in 1..Len(keys) |-> dicts[i][keys[n]]]],
            !.calls = Append(@, "set_emissions")]

set_transitions(h, t) ==
    [h EXCEPT !.transitions = t, !.calls = Append(@, "set_transitions")]

set_hidden_states(h, names) ==
    [h EXCEPT !.hidden_states = names, !.calls = Append(@, "set_hidden_states")]

set_observations(h, obs) ==
    [h EXCEPT !.observations = obs, !.calls = Append(@, "set_observations")]

\* a parameter value Baum-Welch has re-estimated (its number is outside
\* the model)
Reestimated == "estimate"

\* train(convergence): every parameter is re-estimated, the shapes and the
\* symbols stay
train(h) ==
    [h EXCEPT
        !.initial_p = [i \in 1..Len(@) |-> Reestimated],
        !.emissions = [i \in 1..Len(@) |-> [n \in 1..Len(@[i]) |-> Reestimated]],
        !.transitions = [i \in 1..Len(@) |-> [j \in 1..Len(@[i]) |-> Reestimated]],
        !.calls = Append(@, "train")]

\* ------------------------------------------------------------------------
\* HMM_Builder.build_initial_hmm
\* ------------------------------------------------------------------------

\* the exception build_initial_hmm raises, if any: get_symbol_freqs divides
\* by total = sum(weighted), and initial_probabilities reads
\* weighted_match_freqs[s] for every known state
build_initial_hmm_raises(sequence) ==
    LET weighted == WeightedCounts(sequence)
    IN  IF Len(weighted) > 0 /\ SumSeq(weighted) = 0 THEN "ZeroDivisionError"
        ELSE IF Len(weighted) < Len(known_states) THEN "IndexError"
        ELSE "none"

\* the HMM build_initial_hmm returns when it raises nothing
build_initial_hmm(ev, seq) ==
    LET freqs == get_symbol_freqs(seq)
        h1 == set_initial_p(HMM, initial_probabilities(ev, freqs.weighted))
        h2 == set_emissions(h1, emission_probabilities(freqs.keys))
    IN  set_transitions(h2, transition_probabilities(ev))

\* ------------------------------------------------------------------------
\* HMM_Builder.run_hmm: the encoding and the HMMs of one unit
\* ------------------------------------------------------------------------

\* the alignments the units' alignment files hold (<<ref, sp1, predicted>>):
\* one polymorphic site after an unsequenced column; a gap in every column;
\* sequences of different lengths; one site matching no reference
SampleAlignments ==
    {<< <<symbols.unsequenced, "C">>, <<"A", "A">>, <<"A", "A">> >>,
     << <<symbols.gap>>, <<"A">>, <<"A">> >>,
     << <<"A", "C">>, <<"A">>, <<"A", "C">> >>,
     << <<"C">>, <<"C">>, <<"A">> >>}

\* the exception np.array and the indexing of ungap_and_code raise for
\* sequences of different lengths: IndexError (isbase[index_ref+1, :] of the
\* one-dimensional object array older numpy builds) or ValueError (newer
\* numpy refuses the ragged array)
RaggedOutcomes == {"IndexError", "ValueError"}

IsRagged(refs, predict) == \E j \in 1..Len(refs) : Len(refs[j]) # Len(predict)

\* encode_sequence on equal-length sequences
encode_sequence(refs, predict, poly) ==
    LET c == ungap_and_code(predict, refs, 0)
    IN  IF poly THEN poly_sites(c.matches, c.positions)
        ELSE [raised |-> "none", seq |-> c.matches, ps |-> c.positions]

\* run_hmm on equal-length sequences, for a builder whose expected values
\* are ev: the exception and its cause, or the coded sequence, the
\* positions, the copy of the initial HMM and the trained HMM; builder is
\* the builder's expected values as the call leaves them
\* mutant: the copy kept as the initial HMM is taken of the trained HMM
run_hmm_copylate(ev, refs, predict, poly) ==
    LET e == encode_sequence(refs, predict, poly)
        updated == update_expected_length(ev, Len(predict))
    IN  IF e.raised # "none"
        THEN [raised |-> e.raised, cause |-> "no_sites", seq |-> <<>>, ps |-> <<>>,
              hmm_init |-> HMM, hmm |-> HMM, builder |-> ev]
        ELSE IF build_initial_hmm_raises(e.seq) # "none"
        THEN [raised |-> build_initial_hmm_raises(e.seq),
              cause |-> IF Len(e.seq) = 0 THEN "no_sites" ELSE "no_matches",
              seq |-> <<>>, ps |-> <<>>, hmm_init |-> HMM, hmm |-> HMM,
              builder |-> updated]
        ELSE LET built == set_hidden_states(build_initial_hmm(updated, e.seq),
                                            known_states \o unknown_states)
                 trained == train(set_observations(built, <<e.seq>>))
             IN  [raised |-> "none", cause |-> "none", seq |-> e.seq, ps |-> e.ps,
                  hmm_init |-> trained, hmm |-> trained, builder |-> updated]

run_hmm(ev, refs, predict, poly) ==
    LET e == encode_sequence(refs, predict, poly)
        updated == update_expected_length(ev, Len(predict))
    IN  IF e.raised # "none"
        THEN [raised |-> e.raised, cause |-> "no_sites", seq |-> <<>>, ps |-> <<>>,
              hmm_init |-> HMM, hmm |-> HMM, builder |-> ev]
        ELSE IF build_initial_hmm_raises(e.seq) # "none"
        THEN [raised |-> build_initial_hmm_raises(e.seq),
              cause |-> IF Len(e.seq) = 0 THEN "no_sites" ELSE "no_matches",
              seq |-> <<>>, ps |-> <<>>, hmm_init |-> HMM, hmm |-> HMM,
              builder |-> updated]
        ELSE LET built == set_hidden_states(build_initial_hmm(updated, e.seq),
                                            known_states \o unknown_states)
             IN  [raised |-> "none", cause |-> "none", seq |-> e.seq, ps |-> e.ps,
                  hmm_init |-> built,
                  hmm |-> train(set_observations(built, <<e.seq>>)),
                  builder |-> updated]

\* ------------------------------------------------------------------------
\* Predictor.run_prediction
\* ------------------------------------------------------------------------

\* self.chromosomes and self.strains of the sample configuration
chromosomes == <<"I", "II">>

\* the strains entry of the sample configuration, as its list gives it
ConfigStrains == <<"s2", "s1", "s2">>

\* the strain names, ascending in Python's comparison of strings
NameOrder == <<"s1", "s2", "s3">>

Rank(name) == CHOOSE i \in 1..Len(NameOrder) : NameOrder[i] = name

RECURSIVE SortedList(_)
\* list(sorted(names)) of a set of names
SortedList(names) ==
    IF names = {} THEN <<>>
    ELSE LET least == CHOOSE x \in names : \A y \in names : Rank(x) <= Rank(y)
         IN  <<least>> \o SortedList(names \ {least})

find_strains_aslisted(names) == names

\* find_strains: self.strains = list(sorted(set(strains))) for the strains of
\* the configuration, list(sorted(strains.keys())) for those the files give
find_strains(names) ==
    SortedList({names[i] : i \in 1..Len(names)})

strains == find_strains(ConfigStrains)

NumUnits == Len(chromosomes) * Len(strains)

\* the idx-th unit (from 0) of: for chrom in chromosomes: for strain in strains
UnitAt(idx) ==
    <<strains[(idx % Len(strains)) + 1], chromosomes[(idx \div Len(strains)) + 1]>>

\* self.emission_symbols, set in run_prediction
emission_symbols == update_emission_symbols(Len(known_states))

\* the header line of an HMM parameter file; a column name is the tuple of
\* the parts its f-string joins with '_'
write_hmm_header ==
    LET S == Len(emission_symbols)
        N == Len(states)
    IN  << <<"strain", "chromosome">>
            \o [i \in 1..N |-> <<"init", states[i]>>]
            \o [n \in 1..(N * S) |->
                  <<"emis", states[((n - 1) \div S) + 1],
                    emission_symbols[((n - 1) % S) + 1]>>]
            \o [n \in 1..(N * N) |->
                  <<"trans", states[((n - 1) \div N) + 1],
                    states[((n - 1) % N) + 1]>>],
           NL >>

\* mutant: the emissions are written for the symbols the HMM knows
write_hmm_ownsymbols(h, strain, chrm) ==
    LET N == Len(h.hidden_states)
        S == Cardinality(DOMAIN h.symbol_to_ind)
    IN  << <<strain, chrm>>
            \o h.initial_p
            \o [n \in 1..(N * S) |->
                  h.emissions[((n - 1) \div S) + 1][((n - 1) % S) + 1]]
            \o [n \in 1..(N * N) |->
                  h.transitions[((n - 1) \div N) + 1][((n - 1) % N) + 1]],
           NL >>

\* the line write_hmm writes for the HMM h; a field is the number written
\* ('0.0', written for a symbol the HMM does not know, is the number zero)
write_hmm(h, strain, chrm) ==
    LET N == Len(h.hidden_states)
        S == Len(emission_symbols)
        Emission(i, symbol) ==
            IF symbol \in DOMAIN h.symbol_to_ind
            THEN h.emissions[i][h.symbol_to_ind[symbol] + 1]
            ELSE Zero
    IN  << <<strain, chrm>>
            \o h.initial_p
            \o [n \in 1..(N * S) |->
                  Emission(((n - 1) \div S) + 1, emission_symbols[((n - 1) % S) + 1])]
            \o [n \in 1..(N * N) |->
                  h.transitions[((n - 1) \div N) + 1][((n - 1) % N) + 1]],
           NL >>

\* the line write_positions writes
write_positions(ps, strain, chrm) == << <<strain, chrm>> \o ps, NL >>

\* the line write_state_probs writes (one group of probabilities per state)
write_state_probs(n, strain, chrm) == << <<strain, chrm, "probs", n>>, NL >>

\* what an action of run_prediction leaves alone besides its own variables
RunFrame ==
    UNCHANGED <<missing, attrs, enc_pc, blk_pc, priors, coded_sequence, len_seq,
                threshold, probabilities, viterbi_path,
                predicted_states, hmm_pc, argVars, fnVars>>

\* an exception leaves run_prediction: the with block closes the files
RunRaises(exc, cause) ==
    /\ run_pc' = exc
    /\ failed' = Append(failed, [unit |-> unit', cause |-> cause])

\* self.validate_arguments()
RunValidate ==
    /\ run_pc = "start"
    /\ only_poly_sites' \in BOOLEAN
    /\ LET v == validate_arguments
       IN  IF v.raised # "none"
           THEN /\ run_pc' = v.raised
                /\ run_err' = [kind |-> v.kind, name |-> v.name]
           ELSE /\ run_pc' = "set_expected_values"
                /\ UNCHANGED run_err
    /\ RunFrame
    /\ UNCHANGED <<hmm, hmm_init, builder>>
    /\ UNCHANGED <<predict_seq, ref_seqs, seq_coded, positions, state_seq, pos,
                   unit, state_blocks, writer_idx, block_writers, opened,
                   unit_idx, outputs, completed, failed>>

\* hmm_builder = HMM_Builder(self.config); hmm_builder.set_expected_values();
\* update_emission_symbols
RunSetExpectedValues ==
    /\ run_pc = "set_expected_values"
    /\ run_pc' = IF set_expected_values # "none" THEN set_expected_values ELSE "open"
    /\ builder' = IF set_expected_values # "none"
                  THEN builder ELSE ExpectedValues(ConfigPriors)
    /\ RunFrame
    /\ UNCHANGED <<hmm, hmm_init>>
    /\ UNCHANGED <<predict_seq, ref_seqs, only_poly_sites, seq_coded, positions,
                   state_seq, pos, unit, state_blocks, writer_idx, block_writers,
                   run_err, opened, unit_idx, outputs, completed, failed>>

\* the with statement: the output files are opened and get their headers
RunOpen ==
    /\ run_pc = "open"
    /\ LET files == {"hmm_initial", "hmm_trained", "probabilities"}
                     \cup (IF attrs["positions"] # "None" THEN {"positions"} ELSE {})
       IN  /\ opened' = files \cup StateSet
           /\ outputs' = [f \in files |->
                            IF f \in {"hmm_initial", "hmm_trained"}
                            THEN write_hmm_header ELSE <<>>]
    /\ block_writers' = [s \in StateSet |-> write_blocks_header]
    /\ run_pc' = IF NumUnits = 0 THEN "done" ELSE "run_hmm"
    /\ RunFrame
    /\ UNCHANGED <<hmm, hmm_init, builder>>
    /\ UNCHANGED <<predict_seq, ref_seqs, only_poly_sites, seq_coded, positions,
                   state_seq, pos, unit, state_blocks, writer_idx,
                   run_err, unit_idx, completed, failed>>

\* the next unit: hmm_builder.run_hmm(alignment_file, only_poly_sites)
RunHmm ==
    /\ run_pc = "run_hmm"
    /\ unit' = UnitAt(unit_idx)
    /\ unit_idx' = unit_idx + 1
    /\ \E a \in SampleAlignments :
          /\ ref_seqs' = SubSeq(a, 1, Len(a) - 1)
          /\ predict_seq' = a[Len(a)]
          /\ IF IsRagged(ref_seqs', predict_seq')
             THEN /\ \E exc \in RaggedOutcomes : RunRaises(exc, "mismatched_lengths")
                  /\ UNCHANGED <<seq_coded, positions, pos, hmm, hmm_init, builder>>
             ELSE LET r == run_hmm(builder, ref_seqs', predict_seq', only_poly_sites)
                  IN  IF r.raised # "none"
                      THEN /\ RunRaises(r.raised, r.cause)
                           /\ builder' = r.builder
                           /\ UNCHANGED <<seq_coded, positions, pos, hmm, hmm_init>>
                      ELSE /\ builder' = r.builder
                           /\ seq_coded' = r.seq
                           /\ positions' = r.ps
                           /\ pos' = r.ps
                           /\ hmm_init' = r.hmm_init
                           /\ hmm' = r.hmm
                           /\ run_pc' = "write_hmm_initial"
                           /\ UNCHANGED failed
    /\ RunFrame
    /\ UNCHANGED <<only_poly_sites, state_seq, state_blocks, writer_idx,
                   block_writers, run_err, opened, outputs, completed>>

\* self.write_hmm(hmm_initial, initial, strain, chrom)
RunWriteHmmInitial ==
    /\ run_pc = "write_hmm_initial"
    /\ outputs' = [outputs EXCEPT !["hmm_initial"] =
                      @ \o write_hmm(hmm_init, unit[1], unit[2])]
    /\ run_pc' = "write_hmm_trained"
    /\ RunFrame
    /\ UNCHANGED <<hmm, hmm_init, builder>>
    /\ UNCHANGED <<encVars, blkVars, run_err, opened, unit_idx, completed, failed>>

\* self.write_hmm(hmm_trained, trained, strain, chrom)
RunWriteHmmTrained ==
    /\ run_pc = "write_hmm_trained"
    /\ outputs' = [outputs EXCEPT !["hmm_trained"] =
                      @ \o write_hmm(hmm, unit[1], unit[2])]
    /\ run_pc' = "process_path"
    /\ RunFrame
    /\ UNCHANGED <<hmm, hmm_init, builder>>
    /\ UNCHANGED <<encVars, blkVars, run_err, opened, unit_idx, completed, failed>>

\* predicted_states, probs = self.process_path(hmm_trained): one state name
\* per site of the observations, by thresholded posterior or by Viterbi;
\* hmm.posterior_decoding() is called on the trained HMM and, unless
\* type(self.threshold) is float, hmm.viterbi()
RunProcessPath ==
    /\ run_pc = "process_path"
    /\ state_seq' \in [1..Len(seq_coded) -> StateSet]
    /\ hmm' = [hmm EXCEPT !.calls =
                  @ \o (IF attrs["threshold"] = "float"
                        THEN <<"posterior_decoding">>
                        ELSE <<"posterior_decoding", "viterbi">>)]
    /\ run_pc' = "convert_to_blocks"
    /\ RunFrame
    /\ UNCHANGED <<hmm_init, builder>>
    /\ UNCHANGED <<predict_seq, ref_seqs, only_poly_sites, seq_coded, positions,
                   pos, unit, state_blocks, writer_idx, block_writers,
                   run_err, opened, unit_idx, outputs, completed, failed>>

\* state_blocks = self.convert_to_blocks(predicted_states)
RunConvertToBlocks ==
    /\ run_pc = "convert_to_blocks"
    /\ LET r == convert_to_blocks(state_seq)
       IN  /\ state_blocks' = r.blocks
           /\ IF r.raised # "none"
              THEN RunRaises(r.raised, "no_sites")
              ELSE run_pc' = "write_positions" /\ UNCHANGED failed
    /\ writer_idx' = 0
    /\ RunFrame
    /\ UNCHANGED <<hmm, hmm_init, builder>>
    /\ UNCHANGED <<predict_seq, ref_seqs, only_poly_sites, seq_coded, positions,
                   state_seq, pos, unit, block_writers,
                   run_err, opened, unit_idx, outputs, completed>>

\* if positions is not None: self.write_positions(pos, positions, ...)
RunWritePositions ==
    /\ run_pc = "write_positions"
    /\ outputs' = IF attrs["positions"] # "None"
                  THEN [outputs EXCEPT !["positions"] =
                           @ \o write_positions(pos, unit[1], unit[2])]
                  ELSE outputs
    /\ run_pc' = "write_blocks"
    /\ RunFrame
    /\ UNCHANGED <<hmm, hmm_init, builder>>
    /\ UNCHANGED <<encVars, blkVars, run_err, opened, unit_idx, completed, failed>>

\* one iteration of: for state, block in state_blocks.items():
\*                       self.write_blocks(...)
RunWriteBlocks ==
    /\ run_pc = "write_blocks"
    /\ LET state == states[writer_idx + 1]
       IN  block_writers' = [block_writers EXCEPT ![state] =
              @ \o write_blocks(state_blocks[state], pos, unit[1], unit[2], state)]
    /\ writer_idx' = writer_idx + 1
    /\ run_pc' = IF writer_idx + 1 = Len(states) THEN "write_state_probs"
                 ELSE "write_blocks"
    /\ RunFrame
    /\ UNCHANGED <<hmm, hmm_init, builder>>
    /\ UNCHANGED <<predict_seq, ref_seqs, only_poly_sites, seq_coded, positions,
                   state_seq, pos, unit, state_blocks,
                   run_err, opened, unit_idx, outputs, completed, failed>>

\* self.write_state_probs(probs, probabilities, strain, chrom), and on to
\* the next unit
RunWriteStateProbs ==
    /\ run_pc = "write_state_probs"
    /\ outputs' = [outputs EXCEPT !["probabilities"] =
                      @ \o write_state_probs(Len(state_seq), unit[1], unit[2])]
    /\ completed' = Append(completed, unit)
    /\ run_pc' = IF unit_idx = NumUnits THEN "done" ELSE "run_hmm"
    /\ RunFrame
    /\ UNCHANGED <<hmm, hmm_init, builder>>
    /\ UNCHANGED <<encVars, blkVars, run_err, opened, unit_idx, failed>>

InitRun ==
    /\ IdleEncode
    /\ IdleBlocks
    /\ IdleHmm
    /\ IdleArgs
    /\ IdleFn
    /\ InitPredictor

NextRun ==
    \/ SetChromosomes
    \/ SetBlocksFile
    \/ SetPrefix
    \/ SetThreshold
    \/ SetStrains
    \/ SetOutputFiles
    \/ RunValidate
    \/ RunSetExpectedValues
    \/ RunOpen
    \/ RunHmm
    \/ RunWriteHmmInitial
    \/ RunWriteHmmTrained
    \/ RunProcessPath
    \/ RunConvertToBlocks
    \/ RunWritePositions
    \/ RunWriteBlocks
    \/ RunWriteStateProbs

SpecRun == InitRun /\ [][NextRun]_vars

\* ------------------------------------------------------------------------
\* Predictor.process_path and what it calls in hmm_bw, sim_process and
\* sim_predict
\* ------------------------------------------------------------------------

\* the first index of the largest entry of a row of probabilities
ArgMax(row) ==
    CHOOSE i \in 1..Len(row) :
        /\ \A j \in 1..Len(row) : ~RLess(row[i], row[j])
        /\ \A j \in 1..(i - 1) : RLess(row[j], row[i])

\* sim_process.get_max_path(probabilities, hidden_states): per site, the
\* state of the highest posterior and that posterior
get_max_path(probs, hidden_states) ==
    [path |-> [i \in 1..Len(probs) |-> hidden_states[ArgMax(probs[i])]],
     path_probs |-> [i \in 1..Len(probs) |-> probs[i][ArgMax(probs[i])]]]

\* sim_process.threshold_predicted(path, path_probs, threshold, default):
\* a site keeps its state when its posterior exceeds the threshold
threshold_predicted(path, path_probs, thr, default_state) ==
    [i \in 1..Len(path) |->
        IF RLess(thr, path_probs[i]) THEN path[i] ELSE default_state]

\* sim_predict.convert_predictions(path, states): indices to state names
convert_predictions(path, names) == [i \in 1..Len(path) |-> names[path[i] + 1]]

\* the thresholds set_threshold leaves in the Predictor: 'viterbi' or a
\* float
Thresholds == {"viterbi"}

NumericThresholds == {Rat(1, 2)}

\* the strings among the values a threshold is given as: 'viterbi', another
\* word, a string float() converts, and None for no value at all
ThresholdStrings == {"viterbi", "Viterbi", "0.5", "None"}

\* the values set_threshold may find as the supplied or configured
\* threshold: the strings, a number, and a list holding a number
ThresholdValues ==
    <<"viterbi", "Viterbi", "0.5", "None", Rat(1, 2), <<Rat(1, 2)>> >>

\* type(x) is str
IsStr(x) == \E str \in ThresholdStrings : x = str

\* type(x) is float
IsFloat(x) == ~IsStr(x) /\ x \in NumericThresholds

\* float(x): the number itself, the number a string spells, ValueError for
\* any other string, TypeError for what is neither a string nor a number
Float(x) ==
    IF IsStr(x)
    THEN IF x = "0.5" THEN [raised |-> "none", value |-> Rat(1, 2)]
         ELSE [raised |-> "ValueError", value |-> x]
    ELSE IF x \in NumericThresholds THEN [raised |-> "none", value |-> x]
    ELSE [raised |-> "TypeError", value |-> x]

\* Predictor.set_threshold for the value validate finds ("None": neither
\* supplied nor configured, validate raises and nothing is assigned): the
\* exception raised and self.threshold as the call leaves it
set_threshold(value) ==
    IF value = "None"
    THEN [raised |-> "ValueError", threshold |-> "None"]
    ELSE LET f == Float(value)
         IN  IF f.raised = "none"
             THEN [raised |-> "none", threshold |-> f.value]
             ELSE IF f.raised = "ValueError"
             THEN IF value # "viterbi"
                  THEN [raised |-> "ValueError", threshold |-> value]
                  ELSE [raised |-> "none", threshold |-> value]
             ELSE [raised |-> f.raised, threshold |-> value]

\* mutant: the state kept below the threshold is the last state
process_path_laststate(h, thr, probs, vit) ==
    IF IsFloat(thr)
    THEN LET m == get_max_path(probs, h.hidden_states)
         IN  [path |-> threshold_predicted(m.path, m.path_probs, thr,
                                           states[Len(states)]),
              probabilities |-> probs,
              calls |-> <<"posterior_decoding">>]
    ELSE [path |-> convert_predictions(vit, states),
          probabilities |-> probs,
          calls |-> <<"posterior_decoding", "viterbi">>]

\* process_path(hmm) for a Predictor whose threshold is thr (thresholding
\* when type(self.threshold) is float, else Viterbi), given what
\* hmm.posterior_decoding()[0] and hmm.viterbi() return: the path, the
\* probabilities, and the methods called on hmm
process_path(h, thr, probs, vit) ==
    IF IsFloat(thr)
    THEN LET m == get_max_path(probs, h.hidden_states)
         IN  [path |-> threshold_predicted(m.path, m.path_probs, thr,
                                           known_states[1]),
              probabilities |-> probs,
              calls |-> <<"posterior_decoding">>]
    ELSE [path |-> convert_predictions(vit, states),
          probabilities |-> probs,
          calls |-> <<"posterior_decoding", "viterbi">>]

\* ------------------------------------------------------------------------
\* One unit, step by step: HMM_Builder.set_expected_values, run_hmm,
\* build_initial_hmm and Predictor.process_path
\* ------------------------------------------------------------------------

\* most sites of a coded sequence an HMM is built on
MaxObs == 2

\* the coded sequences encode_sequence returns for two references
CodedSequences == SeqsOf({emission_symbols[i] : i \in 1..Len(emission_symbols)}, 0, MaxObs)

\* rows of posterior probabilities over the three states: the known state
\* highest at exactly 1/2, the unknown state highest at 3/4, and the known
\* and the unknown state highest at 3/8
PosteriorRows ==
    {<<Rat(1, 4), Rat(1, 2), Rat(1, 4)>>,
     <<Rat(1, 8), Rat(1, 8), Rat(3, 4)>>,
     <<Rat(1, 4), Rat(3, 8), Rat(3, 8)>>}

\* mutant: the HMM is trained before it is given its observations
RunHmmSteps_trainfirst ==
    <<"update_expected_length", "set_initial_p", "set_emissions",
      "set_transitions", "set_hidden_states", "deepcopy", "train",
      "set_observations">>

\* the statements of run_hmm and, within it, of build_initial_hmm, in order
RunHmmSteps ==
    <<"update_expected_length", "set_initial_p", "set_emissions",
      "set_transitions", "set_hidden_states", "deepcopy", "set_observations",
      "train">>

\* the statement after step: run_hmm returns after the last one and
\* run_prediction goes on to process_path
NextStep(step) ==
    LET i == CHOOSE n \in 1..Len(RunHmmSteps) : RunHmmSteps[n] = step
    IN  IF i = Len(RunHmmSteps) THEN "process_path" ELSE RunHmmSteps[i + 1]

InitHmm ==
    /\ IdleEncode
    /\ IdleBlocks
    /\ IdleRun
    /\ IdleArgs
    /\ IdleFn
    /\ priors \in PriorsSet
    /\ coded_sequence \in CodedSequences
    /\ len_seq \in {IF coded_sequence = <<>> THEN 1 ELSE Len(coded_sequence),
                    Len(coded_sequence) + MaxLen}
    /\ threshold = "None"
    /\ builder = <<>>
    /\ hmm = HMM
    /\ hmm_init = HMM
    /\ probabilities = <<>>
    /\ viterbi_path = <<>>
    /\ predicted_states = <<>>
    /\ hmm_pc = "set_threshold"

\* what a step of the unit leaves alone besides the HMM variables
HmmFrame == UNCHANGED <<encVars, blkVars, runVars, argVars, fnVars, priors,
                        coded_sequence, len_seq>>

\* predictor.set_threshold(threshold), before run_prediction is called
HmmSetThreshold ==
    /\ hmm_pc = "set_threshold"
    /\ \E i \in 1..Len(ThresholdValues) :
          LET r == set_threshold(ThresholdValues[i])
          IN  /\ threshold' = r.threshold
              /\ hmm_pc' = IF r.raised # "none" THEN r.raised
                           ELSE "set_expected_values"
    /\ HmmFrame
    /\ UNCHANGED <<builder, hmm, hmm_init, probabilities, viterbi_path,
                   predicted_states>>

\* hmm_builder.set_expected_values()
HmmSetExpectedValues ==
    /\ hmm_pc = "set_expected_values"
    /\ builder' = ExpectedValues(priors)
    /\ hmm_pc' = RunHmmSteps[1]
    /\ HmmFrame
    /\ UNCHANGED <<threshold, hmm, hmm_init, probabilities, viterbi_path, predicted_states>>

\* self.update_expected_length(len_seq)
HmmUpdateExpectedLength ==
    /\ hmm_pc = "update_expected_length"
    /\ builder' = update_expected_length(builder, len_seq)
    /\ hmm_pc' = NextStep(hmm_pc)
    /\ HmmFrame
    /\ UNCHANGED <<threshold, hmm, hmm_init, probabilities, viterbi_path, predicted_states>>

\* get_symbol_freqs(seq); hmm = hmm_bw.HMM();
\* hmm.set_initial_p(self.initial_probabilities(weighted_match_freqs))
HmmSetInitialP ==
    /\ hmm_pc = "set_initial_p"
    /\ IF build_initial_hmm_raises(coded_sequence) # "none"
       THEN /\ hmm_pc' = build_initial_hmm_raises(coded_sequence)
            /\ UNCHANGED hmm
       ELSE /\ hmm' = set_initial_p(HMM,
                        initial_probabilities(builder,
                            get_symbol_freqs(coded_sequence).weighted))
            /\ hmm_pc' = NextStep(hmm_pc)
    /\ HmmFrame
    /\ UNCHANGED <<threshold, builder, hmm_init, probabilities, viterbi_path, predicted_states>>

\* hmm.set_emissions(self.emission_probabilities(symbol_freqs.keys()))
HmmSetEmissions ==
    /\ hmm_pc = "set_emissions"
    /\ hmm' = set_emissions(hmm,
                 emission_probabilities(get_symbol_freqs(coded_sequence).keys))
    /\ hmm_pc' = NextStep(hmm_pc)
    /\ HmmFrame
    /\ UNCHANGED <<threshold, builder, hmm_init, probabilities, viterbi_path, predicted_states>>

\* hmm.set_transitions(self.transition_probabilities())
HmmSetTransitions ==
    /\ hmm_pc = "set_transitions"
    /\ hmm' = set_transitions(hmm, transition_probabilities(builder))
    /\ hmm_pc' = NextStep(hmm_pc)
    /\ HmmFrame
    /\ UNCHANGED <<threshold, builder, hmm_init, probabilities, viterbi_path, predicted_states>>

\* hmm.set_hidden_states(self.known_states + self.unknown_states)
HmmSetHiddenStates ==
    /\ hmm_pc = "set_hidden_states"
    /\ hmm' = set_hidden_states(hmm, known_states \o unknown_states)
    /\ hmm_pc' = NextStep(hmm_pc)
    /\ HmmFrame
    /\ UNCHANGED <<threshold, builder, hmm_init, probabilities, viterbi_path, predicted_states>>

\* hmm_init = copy.deepcopy(hmm)
HmmDeepCopy ==
    /\ hmm_pc = "deepcopy"
    /\ hmm_init' = hmm
    /\ hmm_pc' = NextStep(hmm_pc)
    /\ HmmFrame
    /\ UNCHANGED <<threshold, builder, hmm, probabilities, viterbi_path, predicted_states>>

\* hmm.set_observations([coded_sequence])
HmmSetObservations ==
    /\ hmm_pc = "set_observations"
    /\ hmm' = set_observations(hmm, <<coded_sequence>>)
    /\ hmm_pc' = NextStep(hmm_pc)
    /\ HmmFrame
    /\ UNCHANGED <<threshold, builder, hmm_init, probabilities, viterbi_path, predicted_states>>

\* hmm.train(self.convergence)
HmmTrain ==
    /\ hmm_pc = "train"
    /\ hmm' = train(hmm)
    /\ hmm_pc' = NextStep(hmm_pc)
    /\ HmmFrame
    /\ UNCHANGED <<threshold, builder, hmm_init, probabilities, viterbi_path, predicted_states>>

\* return hmm_init, hmm, positions; then, in run_prediction,
\* predicted_states, probs = self.process_path(hmm_trained)
HmmProcessPath ==
    /\ hmm_pc = "process_path"
    /\ LET n == Len(coded_sequence)
       IN  /\ probabilities' \in [1..n -> PosteriorRows]
           /\ viterbi_path' \in IF IsFloat(threshold)
                                THEN {<<>>}
                                ELSE [1..n -> 0..(Len(states) - 1)]
    /\ LET r == process_path(hmm, threshold, probabilities', viterbi_path')
       IN  /\ predicted_states' = r.path
           /\ hmm' = [hmm EXCEPT !.calls = @ \o r.calls]
    /\ hmm_pc' = "done"
    /\ HmmFrame
    /\ UNCHANGED <<threshold, builder, hmm_init>>

NextHmm ==
    \/ HmmSetThreshold
    \/ HmmSetExpectedValues
    \/ HmmUpdateExpectedLength
    \/ HmmSetInitialP
    \/ HmmSetEmissions
    \/ HmmSetTransitions
    \/ HmmSetHiddenStates
    \/ HmmDeepCopy
    \/ HmmSetObservations
    \/ HmmTrain
    \/ HmmProcessPath

SpecHmm == InitHmm /\ [][NextHmm]_vars

\* ------------------------------------------------------------------------
\* The units of run_prediction on the one HMM_Builder it creates
\* ------------------------------------------------------------------------

\* the coded sequences of the units' alignments: one site matching both
\* references, one matching the first only, two sites each matching one
\* reference, and one site matching none
UnitSequences ==
    LET m == symbols.match
        x == symbols.mismatch
    IN  {<< <<m, m>> >>, << <<m, x>> >>, << <<m, x>>, <<x, m>> >>, << <<x, x>> >>}

\* the coded sequence and the alignment length encode_sequence returns for
\* a unit
UnitInputs ==
    UNION {{<<c, Len(c) + 1>>, <<c, Len(c) + MaxLen>>} : c \in UnitSequences}

\* run_prediction on the sample configuration, at its first run_hmm
InitUnits ==
    /\ IdleEncode
    /\ IdleBlocks
    /\ IdleRun
    /\ IdleArgs
    /\ IdleFn
    /\ priors = ConfigPriors
    /\ \E u \in UnitInputs : coded_sequence = u[1] /\ len_seq = u[2]
    /\ threshold \in Thresholds
    /\ builder = <<>>
    /\ hmm = HMM
    /\ hmm_init = HMM
    /\ probabilities = <<>>
    /\ viterbi_path = <<>>
    /\ predicted_states = <<>>
    /\ hmm_pc = "set_expected_values"

\* the rest of the loop body after process_path (convert_to_blocks and the
\* writes, none of which reads or changes hmm_builder or the HMMs) and the
\* next iteration's encode_sequence in run_hmm; hmm, hmm_init and the
\* results of process_path keep the last unit's values until the next
\* unit's statements assign them
HmmNextUnit ==
    /\ hmm_pc = "done"
    /\ unit_idx + 1 < NumUnits
    /\ unit_idx' = unit_idx + 1
    /\ \E u \in UnitInputs : coded_sequence' = u[1] /\ len_seq' = u[2]
    /\ hmm_pc' = RunHmmSteps[1]
    /\ UNCHANGED <<encVars, blkVars, argVars, fnVars, missing, attrs, run_pc,
                   run_err,
                   opened, outputs, completed, failed, priors, builder, hmm,
                   hmm_init, threshold, probabilities, viterbi_path,
                   predicted_states>>

NextUnits ==
    \/ HmmSetExpectedValues
    \/ HmmUpdateExpectedLength
    \/ HmmSetInitialP
    \/ HmmSetEmissions
    \/ HmmSetTransitions
    \/ HmmSetHiddenStates
    \/ HmmDeepCopy
    \/ HmmSetObservations
    \/ HmmTrain
    \/ HmmProcessPath
    \/ HmmNextUnit

SpecUnits == InitUnits /\ [][NextUnits]_vars

\* ------------------------------------------------------------------------
\* process_predict_args
\* ------------------------------------------------------------------------

\* An argument is a string: Num(x) is one that float() converts to x,
\* Name(t) one that float() refuses.
Num(x) == [float |-> TRUE, text |-> "", value |-> x]

Name(t) == [float |-> FALSE, text |-> t, value |-> Zero]

\* gp.alignment_ref_order: the baseline first
alignment_ref_order == known_states

RECURSIVE ParseKnown(_, _, _, _)
\* for ref in gp.alignment_ref_order[1:]: two floats each; i is the Python
\* index into arg_list, acc the entries read so far
ParseKnown(args, refs, i, acc) ==
    IF Len(refs) = 0 THEN [raised |-> "none", i |-> i, entries |-> acc]
    ELSE IF i + 1 > Len(args)
    THEN [raised |-> "IndexError", i |-> i, entries |-> acc]
    ELSE IF ~args[i + 1].float
    THEN [raised |-> "ValueError", i |-> i, entries |-> acc]
    ELSE IF i + 2 > Len(args)
    THEN [raised |-> "IndexError", i |-> i, entries |-> acc]
    ELSE IF ~args[i + 2].float
    THEN [raised |-> "ValueError", i |-> i, entries |-> acc]
    ELSE ParseKnown(args, Tail(refs), i + 2,
                    Append(acc, [name |-> Head(refs),
                                 length |-> args[i + 1].value,
                                 frac |-> args[i + 2].value]))

RECURSIVE ParseUnknown(_, _, _)
\* while i < len(arg_list): a name and two floats each
ParseUnknown(args, i, acc) ==
    IF i >= Len(args) THEN [raised |-> "none", i |-> i, entries |-> acc]
    ELSE IF i + 2 > Len(args)
    THEN [raised |-> "IndexError", i |-> i, entries |-> acc]
    ELSE IF ~args[i + 2].float
    THEN [raised |-> "ValueError", i |-> i, entries |-> acc]
    ELSE IF i + 3 > Len(args)
    THEN [raised |-> "IndexError", i |-> i, entries |-> acc]
    ELSE IF ~args[i + 3].float
    THEN [raised |-> "ValueError", i |-> i, entries |-> acc]
    ELSE ParseUnknown(args, i + 3,
                      Append(acc, [name |-> args[i + 1].text,
                                   length |-> args[i + 2].value,
                                   frac |-> args[i + 3].value]))

\* a dict from the entries read, a later entry of a name replacing an
\* earlier one; field is "length" or "frac"
DictOf(entries, field) ==
    [k \in {entries[i].name : i \in 1..Len(entries)} |->
        LET last == CHOOSE i \in 1..Len(entries) :
                        /\ entries[i].name = k
                        /\ \A j \in (i + 1)..Len(entries) : entries[j].name # k
        IN  entries[last][field]]

\* sum(dict.values())
SumValues(dict) ==
    LET RECURSIVE S(_)
        S(keys) == IF keys = {} THEN Zero
                   ELSE LET k == CHOOSE x \in keys : TRUE
                        IN  RAdd(dict[k], S(keys \ {k}))
    IN  S(DOMAIN dict)

\* mutant: the baseline's fraction is the remainder after the known states
BaselineFraction_knownonly(entries, baseline) ==
    LET known == SelectSeq(entries,
                     LAMBDA e : \E i \in 1..Len(alignment_ref_order) :
                                    alignment_ref_order[i] = e.name)
        given == DictOf(known, "frac")
        zeroed == [k \in DOMAIN given \cup {baseline} |->
                      IF k = baseline THEN Zero ELSE given[k]]
    IN  RSub(One, SumValues(zeroed))

\* expected_frac[states[0]] = 0;
\* expected_frac[states[0]] = 1 - sum(expected_frac.values())
BaselineFraction(entries, baseline) ==
    LET given == DictOf(entries, "frac")
        zeroed == [k \in DOMAIN given \cup {baseline} |->
                      IF k = baseline THEN Zero ELSE given[k]]
    IN  RSub(One, SumValues(zeroed))

\* the dictionary process_predict_args returns, or the exception it raises
process_predict_args(args) ==
    IF Len(args) < 2 THEN [raised |-> "IndexError", d |-> <<>>]
    ELSE IF ~args[2].float THEN [raised |-> "ValueError", d |-> <<>>]
    ELSE IF Len(args) < 3 THEN [raised |-> "IndexError", d |-> <<>>]
    ELSE
    LET known == ParseKnown(args, Tail(alignment_ref_order), 3, <<>>)
        unknown == ParseUnknown(args, known.i, known.entries)
    IN  IF known.raised # "none" THEN [raised |-> known.raised, d |-> <<>>]
        ELSE IF unknown.raised # "none" THEN [raised |-> unknown.raised, d |-> <<>>]
        ELSE
        LET entries == unknown.entries
            names == alignment_ref_order
                     \o [i \in 1..(Len(entries) - Len(known.entries)) |->
                            entries[Len(known.entries) + i].name]
            baseline == names[1]
            fracs == DictOf(entries, "frac")
            lens == DictOf(entries, "length")
        IN  [raised |-> "none",
             d |-> [tag |-> args[1],
                    improvement_frac |-> args[2].value,
                    threshold |-> IF args[3].float THEN args[3].value
                                  ELSE "viterbi",
                    known_states |-> alignment_ref_order,
                    unknown_states |-> SubSeq(names, Len(alignment_ref_order) + 1,
                                              Len(names)),
                    states |-> names,
                    expected_frac |->
                        [k \in DOMAIN fracs \cup {baseline} |->
                            IF k = baseline
                            THEN BaselineFraction(entries, baseline)
                            ELSE fracs[k]],
                    expected_tract_lengths |->
                        [k \in DOMAIN lens \cup {baseline} |->
                            IF k = baseline THEN Zero ELSE lens[k]],
                    expected_num_tracts |-> <<>>,
                    expected_bases |-> <<>>]]

\* argument lists: a tag, improvement_frac, a threshold, the known state's
\* length and fraction, then no or one unknown state
FullArgLists ==
    {<<Name("tag"), Num(Rat(1, 100)), t, Num(IntToRat(l1)), Num(f1)>> \o u :
        t \in {Name("viterbi"), Num(Rat(1, 2))},
        l1 \in {2, 10},
        f1 \in {Rat(1, 10), Rat(1, 4)},
        u \in {<<>>}
              \cup {<<Name("unk"), Num(IntToRat(5)), Num(f2)>> :
                       f2 \in {Rat(1, 20), Rat(1, 10)}}}

\* the argument lists and what is left of them when arguments are missing
ArgLists ==
    UNION {{SubSeq(a, 1, n) : n \in 0..Len(a)} : a \in FullArgLists}

InitArgs ==
    /\ IdleEncode
    /\ IdleBlocks
    /\ IdleRun
    /\ IdleFn
    /\ arg_list \in ArgLists
    /\ args_dict = <<>>
    /\ args_pc = "start"
    /\ priors \in PriorsSet
    /\ coded_sequence = <<>>
    /\ len_seq = 0
    /\ threshold = "None"
    /\ builder = <<>>
    /\ hmm = HMM
    /\ hmm_init = HMM
    /\ probabilities = <<>>
    /\ viterbi_path = <<>>
    /\ predicted_states = <<>>
    /\ hmm_pc = "set_expected_values"

\* d = process_predict_args(sys.argv[1:])
ProcessPredictArgs ==
    /\ args_pc = "start"
    /\ LET r == process_predict_args(arg_list)
       IN  /\ args_dict' = r.d
           /\ args_pc' = IF r.raised # "none" THEN r.raised ELSE "return"
    /\ UNCHANGED <<arg_list, encVars, blkVars, runVars, hmmVars, fnVars>>

\* the two places that derive the baseline's expected fraction
NextArgs == ProcessPredictArgs \/ HmmSetExpectedValues

SpecArgs == InitArgs /\ [][NextArgs]_vars

\* ------------------------------------------------------------------------
\* Properties of the Sequence Encoder (checked under SpecEncode)
\* ------------------------------------------------------------------------

\* the i-th smallest element of a set of integers
NthOf(S, i) == CHOOSE j \in S : Cardinality({x \in S : x <= j}) = i

\* the alignment columns (TLA+ indices) at which the predicted sequence and
\* every reference are neither the gap nor the unsequenced symbol
ValidColumns ==
    {c \in 1..Len(predict_seq) :
        /\ predict_seq[c] \notin {symbols.gap, symbols.unsequenced}
        /\ \A j \in 1..Len(ref_seqs) :
              ref_seqs[j][c] \notin {symbols.gap, symbols.unsequenced}}

\* the all-match symbol for k references
AllMatch == [j \in 1..Len(ref_seqs) |-> symbols.match]

\* ungap_and_code has returned and poly_sites has not run
AfterUngap ==
    \/ enc_pc = "poly_sites"
    \/ enc_pc = "return" /\ ~only_poly_sites

\* poly_sites has returned
AfterPoly == enc_pc = "return" /\ only_poly_sites

\* C1: the coded sequence and the positions array have the same length
\* when ungap_and_code returns, and again when poly_sites returns.
C1_SameLength ==
    (AfterUngap \/ AfterPoly) => Len(seq_coded) = Len(positions)

\* C1 witness: poly_sites returned a non-empty pair after dropping a site
C1_Witness ==
    /\ AfterPoly
    /\ Len(seq_coded) >= 1
    /\ Len(seq_coded) < Cardinality(ValidColumns)

\* C2: when poly_sites returns, its output is exactly the (symbol, position)
\* pairs of its input whose symbol is not the all-match symbol, in the
\* input's order, symbol i paired with position i.
C2_PolyFilter ==
    AfterPoly =>
        LET in == ungap_and_code(predict_seq, ref_seqs, 0)
            J == {j \in 1..Len(in.matches) : in.matches[j] # AllMatch}
        IN  /\ Len(seq_coded) = Cardinality(J)
            /\ Len(positions) = Cardinality(J)
            /\ \A i \in 1..Cardinality(J) :
                  /\ seq_coded[i] = in.matches[NthOf(J, i)]
                  /\ positions[i] = in.positions[NthOf(J, i)]
                  /\ seq_coded[i] # AllMatch

\* C2 witness: poly_sites dropped an all-match site that lies before a
\* retained site
C2_Witness ==
    /\ AfterPoly
    /\ Len(seq_coded) >= 1
    /\ LET in == ungap_and_code(predict_seq, ref_seqs, 0)
       IN  in.matches[1] = AllMatch

\* C3 (as claimed): with zero valid columns, encode_sequence with the
\* polymorphism filter on ends by returning an empty coded sequence and an
\* empty positions list, without raising.
C3_EmptyEncodes ==
    (/\ only_poly_sites
     /\ ValidColumns = {}
     /\ enc_pc \notin {"ungap_and_code", "poly_sites"})
        => (enc_pc = "return" /\ seq_coded = <<>> /\ positions = <<>>)

\* C3, second half (as claimed, checked under SpecBlocks): block extraction
\* on a zero-site label sequence returns zero blocks for every state,
\* without raising.
C3_EmptyBlocks ==
    (Len(state_seq) = 0 /\ blk_pc \notin {"idle", "convert_to_blocks"})
        => (blk_pc # "IndexError" /\ \A s \in StateSet : state_blocks[s] = <<>>)

\* C4: ungap_and_code retains a column iff the predicted sequence and every
\* reference are neither gap nor unsequenced there; the symbol of a retained
\* column has k characters, the j-th being match iff reference j's base
\* equals the predicted base, else mismatch.
C4_RetainAndCode ==
    AfterUngap =>
        /\ Len(seq_coded) = Cardinality(ValidColumns)
        /\ \A i \in 1..Cardinality(ValidColumns) :
              LET c == NthOf(ValidColumns, i)
              IN  /\ Len(seq_coded[i]) = Len(ref_seqs)
                  /\ \A j \in 1..Len(ref_seqs) :
                        /\ (seq_coded[i][j] = symbols.match)
                              <=> (ref_seqs[j][c] = predict_seq[c])
                        /\ (seq_coded[i][j] = symbols.mismatch)
                              <=> (ref_seqs[j][c] # predict_seq[c])

\* C4 witness: a column was dropped, and a retained column matches one
\* reference and mismatches another
C4_Witness ==
    /\ AfterUngap
    /\ Cardinality(ValidColumns) < Len(predict_seq)
    /\ \E i \in 1..Len(seq_coded) :
          \E j1, j2 \in 1..Len(ref_seqs) :
             /\ seq_coded[i][j1] = symbols.match
             /\ seq_coded[i][j2] = symbols.mismatch

\* C5: the i-th position is the number of non-gap characters of the index
\* reference (reference 0) before the i-th retained column.
C5_IndexRefCoordinates ==
    AfterUngap =>
        /\ Len(positions) = Cardinality(ValidColumns)
        /\ \A i \in 1..Cardinality(ValidColumns) :
              LET c == NthOf(ValidColumns, i)
              IN  positions[i] =
                     Cardinality({d \in 1..(c - 1) : ref_seqs[1][d] # symbols.gap})

\* C5 witness: a retained column whose position is not its raw alignment
\* column index
C5_Witness ==
    /\ AfterUngap
    /\ Len(positions) = 1
    /\ positions[1] # NthOf(ValidColumns, 1) - 1

\* ------------------------------------------------------------------------
\* Properties of block extraction and block output (checked under SpecBlocks)
\* ------------------------------------------------------------------------

\* convert_to_blocks has returned
AfterConvert == blk_pc \in {"write_blocks", "done"}

\* every block of the result with its label: <<state, <<start, end>>>>
LabelledBlocks ==
    UNION {{<<s, state_blocks[s][k]>> : k \in 1..Len(state_blocks[s])} :
              s \in StateSet}

\* a label repeated n times
Repeat(label, n) == [i \in 1..n |-> label]

RECURSIVE Rebuild(_)
\* the labelled blocks B ordered by start index, each block's label
\* repeated end - start + 1 times
Rebuild(B) ==
    IF B = {} THEN <<>>
    ELSE LET b == CHOOSE x \in B : \A y \in B : x[2][1] <= y[2][1]
         IN  Repeat(b[1], b[2][2] - b[2][1] + 1) \o Rebuild(B \ {b})

\* C6: the blocks convert_to_blocks returns, over all states, ordered by
\* start and expanded to end - start + 1 copies of their label, rebuild the
\* label sequence; no block is listed twice.
C6_RoundTrip ==
    AfterConvert =>
        /\ Rebuild(LabelledBlocks) = state_seq
        /\ \A s \in StateSet : \A k1, k2 \in 1..Len(state_blocks[s]) :
              k1 # k2 => state_blocks[s][k1] # state_blocks[s][k2]

\* C6 witness: a sequence of three blocks in which the first state recurs
C6_Witness ==
    /\ AfterConvert
    /\ Len(state_blocks[states[1]]) = 2
    /\ Len(state_blocks[states[2]]) = 1

\* the Python indices at which a block must start: 0 and every index whose
\* label differs from the previous one
RunStarts ==
    {i \in 0..(Len(state_seq) - 1) : i = 0 \/ state_seq[i + 1] # state_seq[i]}

\* C7: the blocks are the maximal runs: a block starts exactly at each index
\* whose label differs from the previous one, blocks are inclusive ranges
\* with start <= end, pairwise disjoint, index-adjacent blocks carry
\* different labels, every state is a key of the result, and a single-site
\* sequence gives exactly the block (0, 0) under its label.
C7_MaximalRuns ==
    AfterConvert =>
        /\ DOMAIN state_blocks = StateSet
        /\ {b[2][1] : b \in LabelledBlocks} = RunStarts
        /\ Cardinality(LabelledBlocks) = Cardinality(RunStarts)
        /\ \A b \in LabelledBlocks :
              /\ 0 <= b[2][1]
              /\ b[2][1] <= b[2][2]
              /\ b[2][2] < Len(state_seq)
        /\ \A b1, b2 \in LabelledBlocks :
              /\ b1 # b2 => (b1[2][2] < b2[2][1] \/ b2[2][2] < b1[2][1])
              /\ b2[2][1] = b1[2][2] + 1 => b1[1] # b2[1]
        /\ \A s \in StateSet : \A k \in 1..(Len(state_blocks[s]) - 1) :
              state_blocks[s][k][2] < state_blocks[s][k + 1][1]
        /\ Len(state_seq) = 1 =>
              \A s \in StateSet :
                 state_blocks[s] = IF s = state_seq[1] THEN <<<<0, 0>>>> ELSE <<>>

\* C7 witness: a run of two sites followed by a different label
C7_Witness ==
    /\ AfterConvert
    /\ \E b1, b2 \in LabelledBlocks :
          /\ b1[2] = <<0, 1>>
          /\ b2[2] = <<2, 2>>
          /\ b1[1] # b2[1]

RECURSIVE Lines(_, _)
\* the lines of a file's text: the tokens between line breaks (cur is the
\* line being read); text after the last line break is a last line
Lines(text, cur) ==
    IF Len(text) = 0
    THEN IF cur = <<>> THEN <<>> ELSE <<cur>>
    ELSE IF Head(text) = NL
         THEN <<cur>> \o Lines(Tail(text), <<>>)
         ELSE Lines(Tail(text), Append(cur, Head(text)))

\* the file ends with a line break
EndsWithNL(text) == Len(text) > 0 /\ text[Len(text)] = NL

\* C8: after the unit's write_blocks loop, state s's blocks file holds the
\* header and then exactly one row per block (start, end) of s, in order:
\* strain, chromosome, s, positions[start], positions[end], end - start + 1;
\* a state with no block gets no row.
C8_BlockRows ==
    blk_pc = "done" =>
        \A s \in StateSet :
            LET lines == Lines(block_writers[s], <<>>)
                n == Len(state_blocks[s])
            IN  /\ EndsWithNL(block_writers[s])
                /\ Len(lines) = n + 1
                /\ lines[1] = <<BlocksHeader>>
                /\ \A k \in 1..n :
                      LET start == state_blocks[s][k][1]
                          end == state_blocks[s][k][2]
                      IN  lines[k + 1] =
                             << <<unit[1], unit[2], s,
                                  pos[start + 1], pos[end + 1],
                                  end - start + 1>> >>

\* C8 witness: a state without a block got no row, and a block of several
\* sites whose genomic span differs from its number of sites was written
C8_Witness ==
    /\ blk_pc = "done"
    /\ \E s \in StateSet :
          /\ state_blocks[s] = <<>>
          /\ block_writers[s] = write_blocks_header
    /\ \E b \in LabelledBlocks :
          /\ b[2][1] < b[2][2]
          /\ pos[b[2][2] + 1] - pos[b[2][1] + 1] # b[2][2] - b[2][1]

\* ------------------------------------------------------------------------
\* Properties of run_prediction (checked under SpecRun)
\* ------------------------------------------------------------------------

\* the exceptions that end run_prediction
ExceptionNames ==
    {"ValueError", "TypeError", "KeyError", "IndexError", "ZeroDivisionError"}

\* run_prediction has been called and has gone past validate_arguments
Validated == run_pc \notin {"idle", "start"}

\* run_prediction has returned or raised
RunEnded == run_pc \in ExceptionNames \cup {"done"}

\* the configured known and unknown states that lack a parameter
LackingStates ==
    {ConfigKnownNames[i] : i \in
        {i \in 1..Len(ConfigKnownNames) :
            /\ Has("analysis_params.known_states")
            /\ \/ ~Has(ParamKey[ConfigKnownNames[i]]["expected_length"])
               \/ ~Has(ParamKey[ConfigKnownNames[i]]["expected_fraction"])}}
    \cup
    {ConfigUnknownNames[i] : i \in
        {i \in 1..Len(ConfigUnknownNames) :
            /\ Has("analysis_params.unknown_states")
            /\ \/ ~Has(ParamKey[ConfigUnknownNames[i]]["expected_length"])
               \/ ~Has(ParamKey[ConfigUnknownNames[i]]["expected_fraction"])}}

\* a configuration error as C9 lists them
ConfigurationError ==
    \/ \E i \in 1..Len(Args) : attrs[Args[i]] = "None"
    \/ ~Has("analysis_params.known_states")
    \/ LackingStates # {}
    \/ ~Has("analysis_params.reference")

\* C9: with a required attribute unset, no known_states in the
\* configuration, a state without expected_length or expected_fraction, or
\* no reference, run_prediction raises ValueError before it opens an output
\* file or takes up a unit; the message names the unset attribute, or (all
\* attributes being set and known_states configured) the offending state.
C9_FailFast ==
    (Validated /\ ConfigurationError) =>
        /\ run_pc = "ValueError"
        /\ opened = {}
        /\ outputs = <<>>
        /\ unit_idx = 0
        /\ completed = <<>>
        /\ failed = <<>>
        /\ (\E i \in 1..Len(Args) : attrs[Args[i]] = "None") =>
              /\ run_err.kind = "unset"
              /\ attrs[run_err.name] = "None"
        /\ (/\ \A i \in 1..Len(Args) : attrs[Args[i]] # "None"
            /\ Has("analysis_params.known_states")
            /\ LackingStates # {}) =>
              /\ run_err.kind \in {"expected_length", "expected_fraction"}
              /\ run_err.name \in LackingStates
              /\ ~Has(ParamKey[run_err.name][run_err.kind])

\* C9 witness: every attribute is set and the run is refused because the
\* unknown state has no expected_fraction
C9_Witness ==
    /\ run_pc = "ValueError"
    /\ \A a \in AttrNames : attrs[a] # "None"
    /\ run_err = [kind |-> "expected_fraction", name |-> "unk"]

\* the units of the run, in the loop's order
Units == {UnitAt(i) : i \in 0..(NumUnits - 1)}

\* C10 (as claimed): when the processing of a unit fails for mismatched
\* sequence lengths or for want of usable sites, the unit is skipped and
\* every other unit of the run is still processed.
C10_FailureConfined ==
    (/\ RunEnded
     /\ failed # <<>>
     /\ failed[1].cause \in {"mismatched_lengths", "no_sites"})
        => \A u \in Units :
              \/ \E i \in 1..Len(completed) : completed[i] = u
              \/ \E i \in 1..Len(failed) : failed[i].unit = u

\* ------------------------------------------------------------------------
\* Properties of the output files (checked under SpecRun)
\* ------------------------------------------------------------------------

\* the rows of a file's text that begin with the unit's strain and
\* chromosome
RowsOf(text, u) ==
    LET lines == Lines(text, <<>>)
    IN  {k \in 1..Len(lines) :
            /\ Len(lines[k]) = 1
            /\ lines[k][1][1] = u[1]
            /\ lines[k][1][2] = u[2]}

\* some output file holds a record of the unit
HasRecord(u) ==
    \/ \E f \in DOMAIN outputs : RowsOf(outputs[f], u) # {}
    \/ \E s \in DOMAIN block_writers : RowsOf(block_writers[s], u) # {}

\* the unit's encoding, training, decoding and block extraction are done
ComputationDone(u) ==
    \/ \E i \in 1..Len(completed) : completed[i] = u
    \/ /\ unit = u
       /\ run_pc \in {"write_positions", "write_blocks", "write_state_probs"}

\* C11 (as claimed): an output file holds a record of a unit only once the
\* unit's whole computation (encoding, training, decoding, block
\* extraction) has completed, so that a unit whose computation fails
\* leaves no record.
C11_WrittenAfterComputation ==
    \A u \in Units : HasRecord(u) => ComputationDone(u)

\* the data rows (all lines but the first) of an HMM parameter file
DataRows(f) ==
    LET lines == Lines(outputs[f], <<>>)
    IN  [k \in 1..(Len(lines) - 1) |-> lines[k + 1][1]]

\* the number of fields of a row for N states and S emission symbols
HmmFields(N, S) == 2 + N + N * S + N * N

\* C12: an HMM parameter file holds one header row and then one row per
\* processed unit, in the units' order; the header and every data row have
\* 2 + N + N*S + N*N fields for N states and S = 2^k emission symbols, the
\* header naming init per state, emis state-major over the sorted symbols
\* and trans row-major; after the run every unit has its row.
C12_HmmFileRows ==
    \A f \in {"hmm_initial", "hmm_trained"} \cap DOMAIN outputs :
        LET lines == Lines(outputs[f], <<>>)
            header == lines[1][1]
            rows == DataRows(f)
            N == Len(states)
            S == 2 ^ Len(known_states)
        IN  /\ EndsWithNL(outputs[f])
            /\ \A k \in 1..Len(lines) : Len(lines[k]) = 1
            /\ Len(header) = HmmFields(N, S)
            /\ \A i \in 1..N : header[2 + i] = <<"init", states[i]>>
            /\ \A i \in 1..N : \A n \in 1..S :
                  header[2 + N + (i - 1) * S + n]
                      = <<"emis", states[i], emission_symbols[n]>>
            /\ \A i \in 1..N : \A j \in 1..N :
                  header[2 + N + N * S + (i - 1) * N + j]
                      = <<"trans", states[i], states[j]>>
            /\ Len(rows) <= unit_idx
            /\ Len(rows) \in {Len(completed), Len(completed) + 1}
            /\ run_pc = "done" => Len(rows) = NumUnits
            /\ \A k \in 1..Len(rows) :
                  /\ Len(rows[k]) = Len(header)
                  /\ <<rows[k][1], rows[k][2]>> = UnitAt(k - 1)

\* C12 witness: the run is over and both files hold the header and a row
\* for each of the units, a row of the initial file having a symbol the
\* unit's coded sequence lacks
C12_Witness ==
    /\ run_pc = "done"
    /\ NumUnits > 1
    /\ Len(DataRows("hmm_initial")) = NumUnits
    /\ Len(DataRows("hmm_trained")) = NumUnits
    /\ Cardinality(DOMAIN hmm_init.symbol_to_ind) < Len(emission_symbols)

\* ------------------------------------------------------------------------
\* Properties of the initial HMM (checked under SpecHmm)
\* ------------------------------------------------------------------------

\* build_initial_hmm has returned and the HMM is not yet trained
Initialized ==
    hmm_pc \in {"set_hidden_states", "deepcopy", "set_observations"}

\* the initial vector, every state's emissions and every row of the
\* transition matrix of h sum to 1
SumsToOne(h) ==
    /\ Len(h.initial_p) = Len(states)
    /\ RSum(h.initial_p) = One
    /\ Len(h.emissions) = Len(states)
    /\ \A i \in 1..Len(states) : RSum(h.emissions[i]) = One
    /\ Len(h.transitions) = Len(states)
    /\ \A i \in 1..Len(states) : RSum(h.transitions[i]) = One

\* C13: when build_initial_hmm has returned (for a non-empty coded
\* sequence it does not raise on), the initial vector sums to 1, every
\* state's emission distribution sums to 1 over the symbols and every row
\* of the transition matrix sums to 1; the same is true of the copy kept as
\* the initial HMM.  The sums are exact here, so within 1e-9.
C13_InitialDistributions ==
    /\ Initialized => SumsToOne(hmm)
    /\ hmm_init # HMM => SumsToOne(hmm_init)

\* C13 witness: an HMM initialized on a sequence of two different symbols,
\* its states differing in what they emit
C13_Witness ==
    /\ hmm_pc = "set_hidden_states"
    /\ Len(coded_sequence) = 2
    /\ coded_sequence[1] # coded_sequence[2]
    /\ hmm.emissions[1] # hmm.emissions[2]
    /\ hmm.initial_p[1] # hmm.initial_p[2]

\* set_initial_p has been called and train has not
InitialPSet ==
    hmm_pc \in {"set_emissions", "set_transitions", "set_hidden_states",
                "deepcopy", "set_observations", "train"}

\* the prior expected fraction of a state: the configured one, and for the
\* reference what the configured ones leave
PriorFraction(s) ==
    IF s = ReferenceName
    THEN RSub(One, RAdd(priors.sp1.expected_fraction, priors.unk.expected_fraction))
    ELSE priors[s].expected_fraction

\* the number of sites of the coded sequence at which reference s matches
SitesMatching(s) ==
    Cardinality({i \in 1..Len(coded_sequence) :
                    coded_sequence[i][s] = symbols.match})

\* the number of matches in the coded sequence, over all references
AllMatches ==
    Cardinality({<<i, s>> \in (1..Len(coded_sequence)) \X (1..Len(known_states)) :
                    coded_sequence[i][s] = symbols.match})

\* 0.9 * prior + 0.1 * estimate for the known states, the prior for the
\* unknown states, divided by the sum
BlendedInitial(Estimate(_)) ==
    LET raw == [s \in 1..Len(known_states) |->
                   RAdd(RMul(Rat(9, 10), PriorFraction(known_states[s])),
                        RMul(Rat(1, 10), Estimate(s)))]
               \o [u \in 1..Len(unknown_states) |->
                     PriorFraction(unknown_states[u])]
    IN  [i \in 1..Len(raw) |-> RDiv(raw[i], RSum(raw))]

\* C14 (as claimed): the initial probabilities are the normalized blend of
\* 0.9 * prior and 0.1 * estimate, the estimate of a known state being the
\* fraction of the sites of the coded sequence at which its reference
\* matches.
C14_SiteFractionBlend ==
    InitialPSet =>
        LET SiteFraction(s) == Rat(SitesMatching(s), Len(coded_sequence))
        IN  hmm.initial_p = BlendedInitial(SiteFraction)

\* C14 (amended): the estimate of a known state is its reference's share
\* of all the matches of the coded sequence: its number of matching sites
\* divided by the number of matches summed over all references.
C14_MatchShareBlend ==
    InitialPSet =>
        LET MatchShare(s) == Rat(SitesMatching(s), AllMatches)
        IN  hmm.initial_p = BlendedInitial(MatchShare)

\* C14 witness: initial probabilities set for a sequence at which a
\* reference matches at every site without holding all the matches
C14_Witness ==
    /\ InitialPSet
    /\ SitesMatching(1) = Len(coded_sequence)
    /\ SitesMatching(1) < AllMatches

\* ------------------------------------------------------------------------
\* The emission table in the HMM parameter output (checked under SpecRun)
\* ------------------------------------------------------------------------

\* the emission fields of a data row of an HMM parameter file
EmissionFields(row) ==
    SubSeq(row, 2 + Len(states) + 1,
           2 + Len(states) + Len(states) * Len(emission_symbols))

\* C15 (as claimed): the initial HMM of a unit has, for every state, a
\* non-zero emission probability for each of the 2^k symbols, those that
\* do not occur in the coded sequence included, and no row of the initial
\* HMM parameter file reports an emission probability of zero.
C15_FullEmissionTable ==
    /\ hmm_init # HMM =>
          \A i \in 1..Len(states) : \A n \in 1..Len(emission_symbols) :
              /\ emission_symbols[n] \in DOMAIN hmm_init.symbol_to_ind
              /\ hmm_init.emissions[i]
                     [hmm_init.symbol_to_ind[emission_symbols[n]] + 1] # Zero
    /\ "hmm_initial" \in DOMAIN outputs =>
          \A k \in 1..Len(DataRows("hmm_initial")) :
              \A n \in 1..(Len(states) * Len(emission_symbols)) :
                  EmissionFields(DataRows("hmm_initial")[k])[n] # Zero

\* ------------------------------------------------------------------------
\* The initial transition matrix and the expected values (SpecHmm)
\* ------------------------------------------------------------------------

\* set_transitions has been called and train has not
TransitionsSet ==
    hmm_pc \in {"set_hidden_states", "deepcopy", "set_observations", "train"}

\* the entry (i, j) of the matrix before its rows are normalized, from the
\* builder's expected fractions and lengths at the time of the call
RawTransition(i, j) ==
    LET frac(n) == builder.expected_fractions[states[n]]
        len(n) == builder.expected_lengths[states[n]]
    IN  IF i = j
        THEN RSub(One, RDiv(One, len(i)))
        ELSE RMul(RDiv(One, len(i)), RDiv(frac(j), RSub(One, frac(i))))

RawRowSum(i) == RSum([j \in 1..Len(states) |-> RawTransition(i, j)])

\* C16: entry (i, j), i # j, of the initial transition matrix is
\* (1 / expected_length[i]) * (expected_fraction[j] / (1 - expected_fraction[i]))
\* and the diagonal entry 1 - 1 / expected_length[i], each divided by its
\* row's sum; the expected fractions summing to 1, every row sums to 1
\* before the division, which therefore changes nothing.
C16_TransitionMatrix ==
    TransitionsSet =>
        \A i \in 1..Len(states) :
            /\ \A j \in 1..Len(states) :
                  hmm.transitions[i][j] = RDiv(RawTransition(i, j), RawRowSum(i))
            /\ RSum(ValuesOf(builder.expected_fractions, states)) = One =>
                  /\ RawRowSum(i) = One
                  /\ \A j \in 1..Len(states) :
                        hmm.transitions[i][j] = RawTransition(i, j)

\* C16 witness: a matrix whose first row apportions its way out unevenly
\* between the two other states, for expected fractions that sum to 1
C16_Witness ==
    /\ TransitionsSet
    /\ RSum(ValuesOf(builder.expected_fractions, states)) = One
    /\ RLess(hmm.transitions[1][3], hmm.transitions[1][2])
    /\ RLess(hmm.transitions[2][3], hmm.transitions[2][1])

\* update_expected_length has been called: set_threshold raised nothing
\* and the unit is past that statement
LengthUpdated ==
    /\ hmm_pc \notin {"idle", "set_threshold", "set_expected_values",
                      "update_expected_length"}
    /\ (IsFloat(threshold) \/ threshold = "viterbi")

\* the baseline's expected fraction plus the fractions of the unknown states
BaselineFractionFolded ==
    RAdd(PriorFraction(ReferenceName),
         RSum([u \in 1..Len(unknown_states) |-> PriorFraction(unknown_states[u])]))

\* total_length * baseline_fraction / (total_length * S + 1)
BaselineLength(S) ==
    RDiv(RMul(IntToRat(len_seq), BaselineFractionFolded),
         RAdd(RMul(IntToRat(len_seq), S), One))

\* fraction / length of a configured state
TractRate(s) == RDiv(priors[s].expected_fraction, priors[s].expected_length)

\* C17 (as claimed): the baseline's expected tract length is
\* total_length * baseline_fraction / (total_length * S + 1), S being the
\* sum of fraction / length over every state except the baseline.
C17_AllOtherStates ==
    LengthUpdated =>
        builder.expected_lengths[ReferenceName]
            = BaselineLength(RSum([i \in 1..(Len(states) - 1) |->
                                     TractRate(states[i + 1])]))

\* C17 (amended): S is the sum of fraction / length over the known states
\* other than the baseline; the unknown states, whose fractions are folded
\* into baseline_fraction, are left out of S.
C17_KnownOtherStates ==
    LengthUpdated =>
        builder.expected_lengths[ReferenceName]
            = BaselineLength(RSum([i \in 1..(Len(known_states) - 1) |->
                                     TractRate(known_states[i + 1])]))

\* C17 witness: the length was set for an alignment longer than its coded
\* sequence and an unknown state of non-zero fraction
C17_Witness ==
    /\ LengthUpdated
    /\ len_seq > Len(coded_sequence)
    /\ Len(coded_sequence) > 0
    /\ priors.unk.expected_fraction # Zero
    /\ builder.expected_lengths[ReferenceName] # Zero

\* ------------------------------------------------------------------------
\* The baseline's expected fraction (checked under SpecArgs)
\* ------------------------------------------------------------------------

\* the fractions a complete argument list gives: the known state's, and
\* the unknown state's when there is one
ArgFractions ==
    <<arg_list[5].value>>
    \o (IF Len(arg_list) = 8 THEN <<arg_list[8].value>> ELSE <<>>)

\* C18: the baseline's expected fraction is 1 minus the sum of the other
\* states' expected fractions, the fractions of all states sum to 1 and the
\* baseline is the first state, in what set_expected_values leaves in the
\* HMM_Builder and in the dictionary process_predict_args returns.
C18_BaselineDerived ==
    /\ hmm_pc = "update_expected_length" =>
          /\ states[1] = builder.ref_state
          /\ builder.expected_fractions[states[1]]
                = RSub(One, RSum([i \in 1..(Len(states) - 1) |->
                                    priors[states[i + 1]].expected_fraction]))
          /\ RSum(ValuesOf(builder.expected_fractions, states)) = One
    /\ args_pc = "return" =>
          /\ args_dict.states # <<>>
          /\ args_dict.states[1] = alignment_ref_order[1]
          /\ args_dict.states = args_dict.known_states \o args_dict.unknown_states
          /\ args_dict.expected_frac[args_dict.states[1]]
                = RSub(One, RSum(ArgFractions))
          /\ RSum(ValuesOf(args_dict.expected_frac, args_dict.states)) = One

\* C18 witness: set_expected_values has run, and process_predict_args has
\* returned for arguments naming an unknown state
C18_Witness ==
    /\ hmm_pc = "update_expected_length"
    /\ args_pc = "return"
    /\ Len(args_dict.unknown_states) = 1
    /\ args_dict.expected_frac[args_dict.states[1]] # One

\* ------------------------------------------------------------------------
\* Thresholding the posterior path (checked under SpecHmm)
\* ------------------------------------------------------------------------

\* the highest posterior probability of a site
Highest(row) ==
    CHOOSE p \in {row[k] : k \in 1..Len(row)} :
        \A k \in 1..Len(row) : ~RLess(p, row[k])

\* the states whose posterior at a site is the highest one
HighestStates(row) ==
    {hmm.hidden_states[k] : k \in {j \in 1..Len(row) : row[j] = Highest(row)}}

\* process_path has returned for a numeric threshold
Thresholded == hmm_pc = "done" /\ threshold # "viterbi"

\* C19: with a numeric threshold, process_path gives each site the state of
\* the highest posterior probability when that probability is strictly above
\* the threshold, and the baseline (first known) state otherwise, a highest
\* posterior equal to the threshold included.
C19_ThresholdedPath ==
    Thresholded =>
        /\ Len(predicted_states) = Len(probabilities)
        /\ \A i \in 1..Len(probabilities) :
              LET row == probabilities[i]
              IN  /\ RLess(threshold, Highest(row)) =>
                        predicted_states[i] \in HighestStates(row)
                  /\ ~RLess(threshold, Highest(row)) =>
                        predicted_states[i] = known_states[1]
                  /\ Highest(row) = threshold =>
                        predicted_states[i] = known_states[1]

\* C19 witness: a unit with one site whose highest posterior equals the
\* threshold and is labelled with the baseline although another state holds
\* it, and one site above the threshold labelled with that state
C19_Witness ==
    /\ Thresholded
    /\ \E i, j \in 1..Len(probabilities) :
          /\ Highest(probabilities[i]) = threshold
          /\ known_states[1] \notin HighestStates(probabilities[i])
          /\ predicted_states[i] = known_states[1]
          /\ RLess(threshold, Highest(probabilities[j]))
          /\ predicted_states[j] # known_states[1]

\* ------------------------------------------------------------------------
\* The order of the calls on the HMM of a unit (checked under SpecHmm)
\* ------------------------------------------------------------------------

\* the five configuration setters of hmm_bw.HMM
Setters ==
    {"set_initial_p", "set_emissions", "set_transitions", "set_hidden_states",
     "set_observations"}

\* the decoding methods of hmm_bw.HMM
Decoders == {"posterior_decoding", "viterbi"}

\* the methods called on an object before its i-th call
CalledBefore(calls, i) == {calls[j] : j \in 1..(i - 1)}

\* C20: every train on the HMM of a unit comes after all five setters were
\* called on it, and posterior_decoding and viterbi are called only on an
\* HMM whose observations were set, the trained one, never on the initial
\* copy, which has no observations.
C20_SettersBeforeTrainAndDecode ==
    /\ \A i \in 1..Len(hmm.calls) :
          /\ hmm.calls[i] = "train" =>
                Setters \subseteq CalledBefore(hmm.calls, i)
          /\ hmm.calls[i] \in Decoders =>
                /\ "set_observations" \in CalledBefore(hmm.calls, i)
                /\ "train" \in CalledBefore(hmm.calls, i)
                /\ hmm.observations # <<>>
    /\ \A i \in 1..Len(hmm_init.calls) :
          hmm_init.calls[i] \notin Decoders \cup {"set_observations", "train"}
    /\ hmm_init.observations = <<>>

\* C20 witness: a unit decoded with 'viterbi': the HMM was trained and both
\* decoders were called on it, and the initial copy got the four setters
\* that come before the copy
C20_Witness ==
    /\ hmm_pc = "done"
    /\ threshold = "viterbi"
    /\ \E i, j, k \in 1..Len(hmm.calls) :
          /\ i < j
          /\ j < k
          /\ hmm.calls[i] = "train"
          /\ hmm.calls[j] = "posterior_decoding"
          /\ hmm.calls[k] = "viterbi"
    /\ Len(hmm_init.calls) = 4
    /\ coded_sequence # <<>>

\* ------------------------------------------------------------------------
\* Units on the shared HMM_Builder (checked under SpecUnits)
\* ------------------------------------------------------------------------

\* the expected values a builder fresh from set_expected_values has after
\* update_expected_length for the unit at hand
FreshBuilder == update_expected_length(ExpectedValues(priors), len_seq)

\* the initial HMM run_hmm builds for the unit at hand on such a builder
FreshInitialHmm ==
    set_hidden_states(build_initial_hmm(FreshBuilder, coded_sequence),
                      known_states \o unknown_states)

\* the statements of run_hmm from which on the builder, the copy of the
\* initial HMM, and the trained HMM are those of the unit at hand
AfterUpdate ==
    {"set_initial_p", "set_emissions", "set_transitions", "set_hidden_states",
     "deepcopy", "set_observations", "train", "process_path", "done"}

AfterCopy == {"set_observations", "train", "process_path", "done"}

\* C21: whatever units the shared HMM_Builder processed before, the
\* builder's expected values, the initial HMM and the trained HMM (its
\* observations and the parameters training starts from) of a unit are the
\* ones a fresh builder yields for that unit's coded sequence and length.
C21_UnitsIndependent ==
    /\ hmm_pc \in AfterUpdate => builder = FreshBuilder
    /\ hmm_pc \in AfterCopy => hmm_init = FreshInitialHmm
    /\ hmm_pc = "process_path" =>
          hmm = train(set_observations(FreshInitialHmm, <<coded_sequence>>))

\* C21 witness: run_hmm has returned for a later unit whose initial HMM
\* differs from the one the builder built for the unit before it (still in
\* hmm_init at the copy)
C21_Witness ==
    /\ unit_idx >= 1
    /\ hmm_pc = "deepcopy"
    /\ hmm = FreshInitialHmm
    /\ hmm_init # hmm
    /\ hmm_init.initial_p # hmm.initial_p
    /\ hmm_init.transitions # hmm.transitions

\* ------------------------------------------------------------------------
\* read_positions
\* ------------------------------------------------------------------------

\* collections.defaultdict(default_factory): TypeError ('first argument must
\* be callable or None') unless default_factory is callable or None
defaultdict(callable) == IF callable THEN "none" ELSE "TypeError"

\* d[k] = v on a dict d
Put(d, k, v) == [x \in (DOMAIN d) \cup {k} |-> IF x = k THEN v ELSE d[x]]

RECURSIVE ReadPositionLines(_, _)
\* for line in reader: line = line.split(); strain, chrm = line[0:2];
\* result[strain][chrm] = [int(x) for x in line[2:]]
ReadPositionLines(lines, result) ==
    IF Len(lines) = 0 THEN result
    ELSE LET line == lines[1][1]
             strain == line[1]
             chrm == line[2]
             inner == IF strain \in DOMAIN result THEN result[strain] ELSE <<>>
         IN  ReadPositionLines(Tail(lines),
                 Put(result, strain,
                     Put(inner, chrm, SubSeq(line, 3, Len(line)))))

\* read_positions(filename) on a file holding text: result = defaultdict({})
\* is given a dict, which is not callable, and raises before a line is read
read_positions(text) ==
    IF defaultdict(FALSE) # "none"
    THEN [raised |-> defaultdict(FALSE), result |-> <<>>]
    ELSE [raised |-> "none",
          result |-> ReadPositionLines(Lines(text, <<>>), <<>>)]

\* C22 (as claimed): the positions file exists exactly when a positions
\* path is configured and holds one line per unit (strain, chromosome, the
\* unit's positions), and read_positions applied to it returns the
\* dictionary that gives, per strain and chromosome, those positions.
C22_PositionsRoundTrip ==
    /\ DOMAIN outputs # {} =>
          ("positions" \in DOMAIN outputs <=> attrs["positions"] # "None")
    /\ (run_pc = "done" /\ "positions" \in DOMAIN outputs) =>
          LET lines == Lines(outputs["positions"], <<>>)
              r == read_positions(outputs["positions"])
          IN  /\ Len(lines) = NumUnits
              /\ \A k \in 1..Len(lines) :
                    /\ Len(lines[k]) = 1
                    /\ SubSeq(lines[k][1], 1, 2) = UnitAt(k - 1)
              /\ r.raised = "none"
              /\ \A k \in 1..Len(lines) :
                    r.result[UnitAt(k - 1)[1]][UnitAt(k - 1)[2]]
                        = SubSeq(lines[k][1], 3, Len(lines[k][1]))

\* ------------------------------------------------------------------------
\* misc.read_fasta.read_fasta
\* ------------------------------------------------------------------------

\* most lines of a FASTA file
MaxLines == 5

\* the lines of a FASTA file, each the tuple of its characters without the
\* line break: headers, sequence lines and the blank line
FastaLines == {<<">">>, <<">", "h">>, <<"a">>, <<"c", "-">>, <<>>}

\* a header line starts with '>'
IsHeader(line) == Len(line) > 0 /\ line[1] = ">"

RECURSIVE ReadRecords_lastline(_, _, _)
\* mutant: a sequence is the last line read, not what was read so far
\* followed by it
ReadRecords_lastline(lines, headers, seqs) ==
    IF Len(lines) = 0 THEN [headers |-> headers, seqs |-> seqs]
    ELSE IF IsHeader(lines[1])
    THEN ReadRecords_lastline(Tail(lines), Append(headers, lines[1]),
                              Append(seqs, <<>>))
    ELSE ReadRecords_lastline(Tail(lines), headers,
                              [seqs EXCEPT ![Len(seqs)] = lines[1]])

RECURSIVE ReadRecords(_, _, _)
\* from the first header on: a header line opens a record with the empty
\* sequence, any other line is added to the sequence of the open record
ReadRecords(lines, headers, seqs) ==
    IF Len(lines) = 0 THEN [headers |-> headers, seqs |-> seqs]
    ELSE IF IsHeader(lines[1])
    THEN ReadRecords(Tail(lines), Append(headers, lines[1]), Append(seqs, <<>>))
    ELSE ReadRecords(Tail(lines), headers,
                     [seqs EXCEPT ![Len(seqs)] = @ \o lines[1]])

\* read_fasta on a file of these lines: the lines before the first header
\* are skipped; a file without a header raises IndexError
read_fasta(lines) ==
    LET heads == {k \in 1..Len(lines) : IsHeader(lines[k])}
    IN  IF heads = {}
        THEN [raised |-> "IndexError", headers |-> <<>>, seqs |-> <<>>]
        ELSE LET first == CHOOSE k \in heads : \A j \in heads : k <= j
                 r == ReadRecords(SubSeq(lines, first, Len(lines)), <<>>, <<>>)
             IN  [raised |-> "none", headers |-> r.headers, seqs |-> r.seqs]

\* the FASTA files of at most MaxLines lines
FastaFiles == SeqsOf(FastaLines, 0, MaxLines)

InitFasta ==
    /\ IdleEncode
    /\ IdleBlocks
    /\ IdleRun
    /\ IdleHmm
    /\ IdleArgs
    /\ fn_args \in FastaFiles
    /\ fn_ret = <<>>
    /\ fn_pc = "call"

\* headers, seqs = read_fasta(fn)
ReadFasta ==
    /\ fn_pc = "call"
    /\ fn_ret' = read_fasta(fn_args)
    /\ fn_pc' = IF fn_ret'.raised # "none" THEN fn_ret'.raised ELSE "return"
    /\ UNCHANGED <<fn_args, encVars, blkVars, runVars, hmmVars, argVars>>

NextFasta == ReadFasta

SpecFasta == InitFasta /\ [][NextFasta]_vars

\* the indices of the file's header lines, in file order
HeaderIndices ==
    LET heads == {k \in 1..Len(fn_args) : IsHeader(fn_args[k])}
        RECURSIVE Sorted(_)
        Sorted(S) == IF S = {} THEN <<>>
                     ELSE LET m == CHOOSE k \in S : \A j \in S : k <= j
                          IN  <<m>> \o Sorted(S \ {m})
    IN  Sorted(heads)

RECURSIVE Concatenated(_, _)
\* the lines from..to of the file, one after the other
Concatenated(from, to) ==
    IF from > to THEN <<>>
    ELSE fn_args[from] \o Concatenated(from + 1, to)

\* C23: read_fasta returns as many headers as sequences, one pair per
\* header line in file order: the header is the line itself, the sequence
\* the lines up to the next header (or the end of the file) joined without
\* line breaks, empty when there are none; lines before the first header
\* appear nowhere.
C23_ParallelLists ==
    fn_pc = "return" =>
        LET hs == HeaderIndices
            n == Len(hs)
        IN  /\ Len(fn_ret.headers) = n
            /\ Len(fn_ret.seqs) = n
            /\ \A k \in 1..n :
                  /\ fn_ret.headers[k] = fn_args[hs[k]]
                  /\ fn_ret.seqs[k] =
                        Concatenated(hs[k] + 1,
                                     IF k < n THEN hs[k + 1] - 1
                                     ELSE Len(fn_args))

\* C23 witness: a file with a line before its first header, a record of
\* two sequence lines and a record without sequence lines
C23_Witness ==
    /\ fn_pc = "return"
    /\ ~IsHeader(fn_args[1])
    /\ fn_args[1] # <<>>
    /\ Len(fn_ret.headers) = 2
    /\ \E k \in 1..2 : fn_ret.seqs[k] = <<>>
    /\ \E k \in 1..2 : Len(fn_ret.seqs[k]) = 3

\* ------------------------------------------------------------------------
\* set_threshold and the decode mode (checked under SpecHmm)
\* ------------------------------------------------------------------------

\* set_threshold has been called
ThresholdSet == hmm_pc # "set_threshold"

\* the call raised nothing: the unit is being processed or has raised later
ThresholdAccepted == IsFloat(threshold) \/ threshold = "viterbi"

\* C24 (as claimed): set_threshold leaves the threshold as a float or as
\* the string 'viterbi'; for any other value it raises ValueError; so the
\* decode mode of process_path is thresholding of the posterior for a
\* float and Viterbi for 'viterbi'.
C24_FloatOrViterbi ==
    /\ ThresholdSet => (ThresholdAccepted \/ hmm_pc = "ValueError")
    /\ (ThresholdSet /\ ~ThresholdAccepted) => hmm = HMM
    /\ hmm_pc = "done" =>
          /\ ThresholdAccepted
          /\ IsFloat(threshold) =>
                /\ hmm.calls[Len(hmm.calls)] = "posterior_decoding"
                /\ viterbi_path = <<>>
          /\ threshold = "viterbi" =>
                /\ hmm.calls[Len(hmm.calls)] = "viterbi"
                /\ predicted_states = convert_predictions(viterbi_path, states)

\* ------------------------------------------------------------------------
\* seq_functions.index_ignoring_gaps
\* ------------------------------------------------------------------------

\* longest string given to index_ignoring_gaps and longest_consecutive
MaxStr == 7

RECURSIVE IndexLoop(_, _, _, _, _)
\* the while loop of index_ignoring_gaps from index x on (s[x] is the
\* model's s[x + 1])
IndexLoop(s, i, gap_symbol, x, non_gap_count) ==
    IF ~(x < Len(s)) THEN x
    ELSE IF s[x + 1] # gap_symbol /\ non_gap_count >= i THEN x
    ELSE IndexLoop(s, i, gap_symbol, x + 1,
                   IF s[x + 1] # gap_symbol THEN non_gap_count + 1
                   ELSE non_gap_count)

\* mutant: i is not reduced by s_start
index_ignoring_gaps_nostart(s, i, s_start, gap_symbol) ==
    IF ~(s_start >= 0) THEN [raised |-> "AssertionError", value |-> 0]
    ELSE IF i - s_start < 0 THEN [raised |-> "none", value |-> -1]
    ELSE [raised |-> "none", value |-> IndexLoop(s, i, gap_symbol, 0, 0)]

\* index_ignoring_gaps(s, i, s_start, gap_symbol)
index_ignoring_gaps(s, i, s_start, gap_symbol) ==
    IF ~(s_start >= 0) THEN [raised |-> "AssertionError", value |-> 0]
    ELSE IF i - s_start < 0 THEN [raised |-> "none", value |-> -1]
    ELSE [raised |-> "none",
          value |-> IndexLoop(s, i - s_start, gap_symbol, 0, 0)]

\* the calls: strings of bases and gaps, an index, a start index
IndexCalls ==
    [s : SeqsOf({"A", symbols.gap}, 0, MaxStr), i : 0..MaxStr,
     s_start : -1..2, gap_symbol : {symbols.gap}]

InitIndex ==
    /\ IdleEncode
    /\ IdleBlocks
    /\ IdleRun
    /\ IdleHmm
    /\ IdleArgs
    /\ fn_args \in IndexCalls
    /\ fn_ret = <<>>
    /\ fn_pc = "call"

\* index_ignoring_gaps(s, i, s_start, gap_symbol)
IndexIgnoringGaps ==
    /\ fn_pc = "call"
    /\ fn_ret' = index_ignoring_gaps(fn_args.s, fn_args.i, fn_args.s_start,
                                     fn_args.gap_symbol)
    /\ fn_pc' = IF fn_ret'.raised # "none" THEN fn_ret'.raised ELSE "return"
    /\ UNCHANGED <<fn_args, encVars, blkVars, runVars, hmmVars, argVars>>

NextIndex == IndexIgnoringGaps

SpecIndex == InitIndex /\ [][NextIndex]_vars

\* the 0-based indices of the non-gap characters of the string of the call
NonGapIndices ==
    {x \in 0..(Len(fn_args.s) - 1) : fn_args.s[x + 1] # fn_args.gap_symbol}

\* C25: index_ignoring_gaps(s, i, s_start, gap) returns -1 when i < s_start,
\* else the index in s of the non-gap character that has exactly i - s_start
\* non-gap characters before it, and len(s) when s has no such character.
C25_IndexIgnoringGaps ==
    fn_pc = "return" =>
        LET n == fn_args.i - fn_args.s_start
        IN  /\ n < 0 => fn_ret.value = -1
            /\ (n >= 0 /\ Cardinality(NonGapIndices) >= n + 1) =>
                  /\ fn_ret.value \in NonGapIndices
                  /\ Cardinality({x \in NonGapIndices : x < fn_ret.value}) = n
            /\ (n >= 0 /\ Cardinality(NonGapIndices) < n + 1) =>
                  fn_ret.value = Len(fn_args.s)

\* C25 witness: the docstring's call, s = '-A-AA-A', i = 2, s_start = 0,
\* which returns 4
C25_Witness ==
    /\ fn_pc = "return"
    /\ fn_args.s = <<"-", "A", "-", "A", "A", "-", "A">>
    /\ fn_args.i = 2
    /\ fn_args.s_start = 0
    /\ fn_ret.value = 4

\* validate_arguments accepted the configuration and the Predictor
Accepted == Validated /\ validate_arguments.raised = "none"

\* C26 (as claimed): for every configuration validate_arguments accepts,
\* one without an unknown_states entry included, set_expected_values raises
\* nothing and run_prediction goes on to open its files and to the units.
C26_AcceptedConfigurationRuns ==
    Accepted =>
        /\ set_expected_values = "none"
        /\ run_pc \in {"set_expected_values", "open"} \/ opened # {}

\* ------------------------------------------------------------------------
\* The order of the units and of the rows of the output files
\* ------------------------------------------------------------------------

\* the place of a chromosome in the configured list
ChromIndex(chrom) ==
    CHOOSE i \in 1..Len(chromosomes) : chromosomes[i] = chrom

\* the distinct strain names of the configuration
StrainNames == {ConfigStrains[i] : i \in 1..Len(ConfigStrains)}

\* unit u comes before unit v in chromosome-major order with the strains
\* ascending
Before(u, v) ==
    \/ ChromIndex(u[2]) < ChromIndex(v[2])
    \/ u[2] = v[2] /\ Rank(u[1]) < Rank(v[1])

\* the (strain, chromosome) of the rows of a file after its skip header lines
RowUnits(text, skip) ==
    LET lines == Lines(text, <<>>)
    IN  [k \in 1..(Len(lines) - skip) |->
            <<lines[k + skip][1][1], lines[k + skip][1][2]>>]

\* the units whose processing has begun
Begun == Append(completed, unit)

\* C27: the units are processed in chromosome-major order, the chromosomes as
\* configured and within a chromosome the distinct strains ascending, each
\* unit once, all of them when the run ends; the rows of every output file
\* (one per unit in the parameter, positions and probabilities files, one per
\* block in the blocks files) follow that order.
C27_UnitOrder ==
    /\ \A k \in 1..(Len(completed) - 1) : Before(completed[k], completed[k + 1])
    /\ \A k \in 1..Len(completed) :
          completed[k][1] \in StrainNames /\ ChromIndex(completed[k][2]) > 0
    /\ run_pc = "done" =>
          /\ Len(completed) = Len(chromosomes) * Cardinality(StrainNames)
          /\ \A i \in 1..Len(chromosomes) : \A s \in StrainNames :
                \E k \in 1..Len(completed) : completed[k] = <<s, chromosomes[i]>>
    /\ \A f \in DOMAIN outputs :
          LET rows == RowUnits(outputs[f],
                               IF f \in {"hmm_initial", "hmm_trained"} THEN 1 ELSE 0)
          IN  /\ \A k \in 1..(Len(rows) - 1) : Before(rows[k], rows[k + 1])
              /\ \A k \in 1..Len(rows) :
                    \E j \in 1..Len(Begun) : Begun[j] = rows[k]
              /\ run_pc = "done" => rows = completed
    /\ \A s \in DOMAIN block_writers :
          LET rows == RowUnits(block_writers[s], 1)
          IN  /\ \A k \in 1..(Len(rows) - 1) : ~Before(rows[k + 1], rows[k])
              /\ \A k \in 1..Len(rows) :
                    \E j \in 1..Len(Begun) : Begun[j] = rows[k]

\* C27 witness: the run is over for a configuration listing a strain twice and
\* out of order, with several chromosomes, a positions file, and a blocks
\* file holding rows of two units, another one no row of the first unit
C27_Witness ==
    /\ run_pc = "done"
    /\ Len(ConfigStrains) > Cardinality(StrainNames)
    /\ Rank(ConfigStrains[1]) > Rank(ConfigStrains[2])
    /\ Len(completed) = 4
    /\ "positions" \in DOMAIN outputs
    /\ \E s \in DOMAIN block_writers :
          LET rows == RowUnits(block_writers[s], 1)
          IN  \E k \in 1..(Len(rows) - 1) : Before(rows[k], rows[k + 1])
    /\ \E s \in DOMAIN block_writers :
          LET rows == RowUnits(block_writers[s], 1)
          IN  Len(rows) > 0 /\ rows[1] # completed[1]

\* ------------------------------------------------------------------------
\* The initial HMM of a unit
\* ------------------------------------------------------------------------

\* run_hmm has returned the HMMs of the current unit and run_prediction
\* writes them
HmmReturned ==
    run_pc \in {"write_hmm_initial", "write_hmm_trained", "process_path"}

\* the calls made on an HMM up to the copy
CallsBeforeCopy ==
    <<"set_initial_p", "set_emissions", "set_transitions", "set_hidden_states">>

\* C28: the initial HMM run_hmm returns has had its parameters and hidden
\* states set and neither observations nor training: its initial, emission
\* and transition parameters are those the initializer computes for the
\* unit, while the trained HMM, on which set_observations and train were
\* called after the copy, holds re-estimated values; the row written for
\* the unit holds the initial HMM's parameters, and around every write of
\* the pre-training parameter file and when the run has ended no row of it
\* holds a re-estimated value.
C28_InitialHmmIsPreTraining ==
    /\ HmmReturned =>
          LET freqs == get_symbol_freqs(seq_coded)
              dicts == emission_probabilities(freqs.keys)
          IN  /\ hmm_init.calls = CallsBeforeCopy
              /\ hmm_init.observations = HMM.observations
              /\ hmm_init.hidden_states = known_states \o unknown_states
              /\ hmm_init.initial_p = initial_probabilities(builder, freqs.weighted)
              /\ \A i \in 1..Len(states) : \A k \in DOMAIN dicts[i] :
                    hmm_init.emissions[i][hmm_init.symbol_to_ind[k] + 1] = dicts[i][k]
              /\ hmm_init.transitions = transition_probabilities(builder)
              /\ hmm.calls = CallsBeforeCopy \o <<"set_observations", "train">>
              /\ hmm.observations = <<seq_coded>>
              /\ \A i \in 1..Len(states) :
                    /\ hmm.initial_p[i] = Reestimated
                    /\ \A j \in 1..Len(states) : hmm.transitions[i][j] = Reestimated
              /\ run_pc # "write_hmm_initial" =>
                    /\ Len(DataRows("hmm_initial")) = unit_idx
                    /\ <<DataRows("hmm_initial")[unit_idx], NL>>
                          = write_hmm(hmm_init, unit[1], unit[2])
    /\ "hmm_initial" \in DOMAIN outputs /\ (HmmReturned \/ RunEnded) =>
          \A k \in 1..Len(outputs["hmm_initial"]) :
              LET row == outputs["hmm_initial"][k]
              IN  row # NL => \A j \in 3..Len(row) : row[j] # Reestimated

\* C28 witness: both files of a unit are written, the trained row holding
\* re-estimated values where the initial row holds the initializer's
C28_Witness ==
    /\ run_pc = "process_path"
    /\ unit_idx = 2
    /\ hmm_init.initial_p[1] # hmm_init.initial_p[2]
    /\ hmm.initial_p[1] = Reestimated
    /\ LET before == DataRows("hmm_initial")
           after == DataRows("hmm_trained")
       IN  /\ Len(before) = 2 /\ Len(after) = 2
           /\ before[2][3] # Reestimated
           /\ after[2][3] = Reestimated

\* ------------------------------------------------------------------------
\* The frequencies get_symbol_freqs returns
\* ------------------------------------------------------------------------

\* build_initial_hmm has called get_symbol_freqs, which returned
SymbolFreqsReturned ==
    hmm_pc \in {"set_emissions", "set_transitions", "set_hidden_states",
                "deepcopy", "set_observations", "train", "process_path", "done"}

\* C29 (as claimed): for every non-empty coded sequence get_symbol_freqs
\* raises nothing, and returns symbol frequencies summing to 1 and one
\* weighted match frequency per reference, none negative, summing to 1.
C29_SymbolFreqs ==
    Len(coded_sequence) > 0 =>
        /\ hmm_pc # "ZeroDivisionError"
        /\ SymbolFreqsReturned =>
              LET f == get_symbol_freqs(coded_sequence)
              IN  /\ RSum([i \in 1..Len(f.keys) |-> f.symbols[f.keys[i]]]) = One
                  /\ Len(f.weighted) = Len(known_states)
                  /\ \A j \in 1..Len(f.weighted) : ~RLess(f.weighted[j], Zero)
                  /\ RSum(f.weighted) = One

\* ------------------------------------------------------------------------
\* longest_consecutive (summarize_region_quality)
\* ------------------------------------------------------------------------

RECURSIVE LongestLoop(_, _, _, _, _, _)
\* the for loop of longest_consecutive from index i on (s[i] is the model's
\* s[i + 1]), and the return of max_consecutive after it
LongestLoop(s, c, i, max_consecutive, current_consecutive, in_segment) ==
    IF ~(i < Len(s)) THEN max_consecutive
    ELSE IF s[i + 1] = c
         THEN LongestLoop(s, c, i + 1, max_consecutive,
                          current_consecutive + 1, TRUE)
         ELSE IF in_segment
              THEN LongestLoop(s, c, i + 1,
                               IF max_consecutive >= current_consecutive
                               THEN max_consecutive ELSE current_consecutive,
                               0, FALSE)
              ELSE LongestLoop(s, c, i + 1, max_consecutive,
                               current_consecutive, FALSE)

\* longest_consecutive(s, c)
longest_consecutive(s, c) == LongestLoop(s, c, 0, 0, 0, FALSE)

\* the calls: strings of bases and gaps, and the character counted
LongestCalls ==
    [s : SeqsOf({"A", symbols.gap}, 0, MaxStr), c : {"A", symbols.gap}]

InitLongest ==
    /\ IdleEncode
    /\ IdleBlocks
    /\ IdleRun
    /\ IdleHmm
    /\ IdleArgs
    /\ fn_args \in LongestCalls
    /\ fn_ret = <<>>
    /\ fn_pc = "call"

\* longest_consecutive(s, c)
LongestConsecutive ==
    /\ fn_pc = "call"
    /\ fn_ret' = [raised |-> "none",
                  value |-> longest_consecutive(fn_args.s, fn_args.c)]
    /\ fn_pc' = "return"
    /\ UNCHANGED <<fn_args, encVars, blkVars, runVars, hmmVars, argVars>>

NextLongest == LongestConsecutive

SpecLongest == InitLongest /\ [][NextLongest]_vars

\* s has n consecutive characters c from index x on
IsRun(s, c, x, n) == \A k \in x..(x + n - 1) : s[k + 1] = c

\* the length of the longest run of c in s
LongestRun(s, c) ==
    CHOOSE n \in 0..Len(s) :
        /\ \E x \in 0..(Len(s) - n) : IsRun(s, c, x, n)
        /\ \A m \in (n + 1)..Len(s) :
              \A x \in 0..(Len(s) - m) : ~IsRun(s, c, x, m)

\* C30 (as claimed): longest_consecutive(s, c) returns the length of the
\* longest run of c in s for every string s, the strings whose longest run
\* ends at their last character included.
C30_LongestConsecutive ==
    fn_pc = "return" => fn_ret.value = LongestRun(fn_args.s, fn_args.c)

====
